---- MODULE Spec2Model ----
(***************************************************************************)
(* Verification model of the Linear operations agent.                      *)
(*                                                                         *)
(*   SpecCache  : the TTL read-through caches of server/src/linear.ts      *)
(*                (getTeamMetadata, getProjectMilestones) under            *)
(*                interleaved asynchronous callers.                         *)
(*   Spec       : the request handlers of server/src/routes.ts (/agent,    *)
(*                /upload, /execute) over the tracker service operations   *)
(*                of server/src/linear.ts.                                 *)
(*   SpecClient : the review of a plan in the browser                      *)
(*                (client/src/components/ActionInspector.tsx).             *)
(*   SpecHelpers: the text, priority and label helper functions of         *)
(*                server/src/linear.ts applied to bounded arguments.       *)
(*   SpecPlan   : a drafted createIssue from its preview (/agent, /upload) *)
(*                to its execution (/execute, createIssue).                *)
(***************************************************************************)
EXTENDS Integers, Sequences, FiniteSets, TLC

VARIABLES
    now,            \* Date.now(), in milliseconds
    ticks,          \* number of clock advances so far (bounded)
    envKey,         \* process.env.LINEAR_API_KEY
    metadataCache,  \* Map<teamId, {data, expires}>
    milestoneCache, \* Map<projectId, {data, expires}>
    call,           \* per caller: the position of its pending async call
    nextFetch,      \* number of live fetches started so far (fetch ids)
    fetchLog,       \* history: the live fetches that completed successfully
    invocations,    \* number of calls made so far (bounded)
    req,            \* the HTTP request the server is handling
    results,        \* /execute batch: the results pushed so far
    outcomes,       \* history: per batch item, whether executeLinearAction threw
    sent,           \* the tracker calls issued while handling the request
    response,       \* the HTTP response of the request
    items,          \* ActionInspector: localData.results
    root,           \* ActionInspector: localData.status of a chat plan
    executing,      \* ActionInspector: the executing flag
    flights,        \* ActionInspector: handlers awaiting the server's answer
    submitted,      \* history: how often each plan item was sent to /execute
    args,           \* the arguments of the helper function under evaluation
    ret             \* what the helper function returned for them

cacheVars == <<now, ticks, envKey, metadataCache, milestoneCache, call,
               nextFetch, fetchLog, invocations>>

serverVars == <<req, results, outcomes, sent, response>>

clientVars == <<items, root, executing, flights, submitted>>

helperVars == <<args, ret>>

vars == <<now, ticks, envKey, metadataCache, milestoneCache, call,
          nextFetch, fetchLog, invocations, req, results, outcomes, sent,
          response, items, root, executing, flights, submitted, args, ret>>

-----------------------------------------------------------------------------
(* Bounds of the model *)

MaxInvocations == 2
MaxTicks == 1
MaxBatch == 2
MaxFiles == 1
PlanSize == 2
MaxFlights == 2
MaxSubmissions == 2

-----------------------------------------------------------------------------
(* Credentials.  A key is <<prefix, rest>> so that startsWith('lin_api_')   *)
(* is computed on the prefix.  NoKey is an absent (undefined or '') key.    *)

NoKey == <<"", "">>
MockKey == <<"mock-", "key">>
KeyA == <<"lin_api_", "A">>
KeyE == <<"lin_api_", "E">>

ApiKeys == {NoKey, MockKey, KeyA}
EnvKeys == {NoKey, KeyE}

startsWith(key, prefix) == key[1] = prefix

\* const key = apiKey || process.env.LINEAR_API_KEY
effectiveKey(apiKey) == IF apiKey # NoKey THEN apiKey ELSE envKey

shouldMock(apiKey) ==
    LET key == effectiveKey(apiKey)
    IN  key = NoKey \/ ~startsWith(key, "lin_api_") \/ key = MockKey

-----------------------------------------------------------------------------
(* Caches *)

CACHE_TTL == 5 * 60 * 1000

Teams == {"t1", "t2"}
MockTeamId == "mock-team-id"
TeamIds == Teams \cup {MockTeamId}
Projects == {"p1"}
Facets == {"projects", "cycles", "labels", "states"}
Callers == {"c1", "c2"}

NoEntry == [kind |-> "none"]
NoResult == [kind |-> "none"]

\* the mockMetadata object of getTeamMetadata
MockMetadata(teamId) ==
    [kind |-> "team", key |-> teamId, fetch |-> 0, cred |-> NoKey,
     facetOf |-> [f \in Facets |-> 0]]

\* the mockMilestones list of getProjectMilestones
MockMilestones(projectId) ==
    [kind |-> "milestones", key |-> "mock", fetch |-> 0, cred |-> NoKey]

EmptyMilestones == [kind |-> "empty"]

\* cached && Date.now() < cached.expires, skipped when opts.force
CacheHitIgnoringExpiry(cache, key, force) ==
    ~force /\ cache[key] # NoEntry

CacheHit(cache, key, force) ==
    ~force /\ cache[key] # NoEntry /\ now < cache[key].expires

NewEntry(data) == [kind |-> "entry", data |-> data, expires |-> now + CACHE_TTL]

IdleCall ==
    [op |-> "none", key |-> "", force |-> FALSE, apiKey |-> NoKey, pc |-> "idle",
     fid |-> 0,
     upstream |-> "none", result |-> NoResult]

\* the metadata object assembled from the four facet responses of one call
BuildMetadataInPlace(c) ==
    LET old == metadataCache[call[c].key]
    IN  [kind |-> "team", key |-> call[c].key, fetch |-> call[c].fid,
         cred |-> effectiveKey(call[c].apiKey),
         facetOf |-> [f \in Facets |->
                        IF old # NoEntry /\ f = "labels"
                        THEN old.data.facetOf[f] ELSE call[c].fid]]

BuildMetadata(c) ==
    [kind |-> "team", key |-> call[c].key, fetch |-> call[c].fid,
     cred |-> effectiveKey(call[c].apiKey),
     facetOf |-> [f \in Facets |-> call[c].fid]]

BuildMilestones(c) ==
    [kind |-> "milestones", key |-> call[c].key, fetch |-> call[c].fid,
     cred |-> effectiveKey(call[c].apiKey)]

IdleRequest == [handler |-> "none", pc |-> "idle", apiKey |-> NoKey, batch |-> <<>>, i |-> 0, teamId |-> ""]
NoResponse == [code |-> 0, status |-> "", error |-> "", result |-> [source |-> "none"]]

-----------------------------------------------------------------------------
(* getTeamMetadata, one action per await *)

\* the synchronous prefix: cache check, mock check, client.team(teamId) issued
GetTeamMetadataCall(c, teamId, force, apiKey) ==
    /\ call[c].pc = "idle"
    /\ invocations < MaxInvocations
    /\ invocations' = invocations + 1
    /\ LET base == [IdleCall EXCEPT !.op = "team", !.key = teamId,
                                    !.force = force, !.apiKey = apiKey]
       IN  IF CacheHit(metadataCache, teamId, force)
           THEN /\ call' = [call EXCEPT ![c] =
                       [base EXCEPT !.pc = "returned",
                                    !.result = metadataCache[teamId].data]]
                /\ UNCHANGED nextFetch
           ELSE IF shouldMock(apiKey)
           THEN /\ call' = [call EXCEPT ![c] =
                       [base EXCEPT !.pc = "returned",
                                    !.result = MockMetadata(teamId)]]
                /\ UNCHANGED nextFetch
           ELSE /\ call' = [call EXCEPT ![c] =
                       [base EXCEPT !.pc = "awaitTeam", !.fid = nextFetch + 1]]
                /\ nextFetch' = nextFetch + 1
    /\ UNCHANGED <<serverVars, clientVars, helperVars>>
    /\ UNCHANGED <<now, ticks, envKey, metadataCache, milestoneCache, fetchLog>>

\* await client.team(teamId) resolves: the four facet requests are issued
TeamResolved(c) ==
    /\ call[c].pc = "awaitTeam"
    /\ call' = [call EXCEPT ![c].pc = "awaitFacets"]
    /\ UNCHANGED <<serverVars, clientVars, helperVars>>
    /\ UNCHANGED <<now, ticks, envKey, metadataCache, milestoneCache,
                   nextFetch, fetchLog, invocations>>

\* the Promise.all of the four facet requests resolves: build metadata, metadataCache.set, return
TeamFetchComplete(c) ==
    /\ call[c].pc = "awaitFacets"
    /\ LET metadata == BuildMetadata(c)
       IN  /\ metadataCache' = [metadataCache EXCEPT ![call[c].key] = NewEntry(metadata)]
           /\ call' = [call EXCEPT ![c].pc = "returned", ![c].result = metadata]
           /\ fetchLog' = fetchLog \cup
                 {[fetch |-> call[c].fid, op |-> "team", key |-> call[c].key,
                   data |-> metadata, doneAt |-> now]}
    /\ UNCHANGED <<serverVars, clientVars, helperVars>>
    /\ UNCHANGED <<now, ticks, envKey, milestoneCache, nextFetch, invocations>>

\* any awaited request rejects: catch (e) { console.error(...); throw e; }
TeamFetchFailed(c, kind) ==
    /\ call[c].pc \in {"awaitTeam", "awaitFacets"}
    /\ call' = [call EXCEPT ![c].pc = "threw", ![c].upstream = kind]
    /\ UNCHANGED <<serverVars, clientVars, helperVars>>
    /\ UNCHANGED <<now, ticks, envKey, metadataCache, milestoneCache,
                   nextFetch, fetchLog, invocations>>

-----------------------------------------------------------------------------
(* getProjectMilestones, one action per await *)

GetProjectMilestonesCall(c, projectId, force, apiKey) ==
    /\ call[c].pc = "idle"
    /\ invocations < MaxInvocations
    /\ invocations' = invocations + 1
    /\ LET base == [IdleCall EXCEPT !.op = "milestones", !.key = projectId,
                                    !.force = force, !.apiKey = apiKey]
       IN  IF CacheHit(milestoneCache, projectId, force)
           THEN /\ call' = [call EXCEPT ![c] =
                       [base EXCEPT !.pc = "returned",
                                    !.result = milestoneCache[projectId].data]]
                /\ UNCHANGED nextFetch
           ELSE IF shouldMock(apiKey)
           THEN /\ call' = [call EXCEPT ![c] =
                       [base EXCEPT !.pc = "returned",
                                    !.result = MockMilestones(projectId)]]
                /\ UNCHANGED nextFetch
           ELSE /\ call' = [call EXCEPT ![c] =
                       [base EXCEPT !.pc = "awaitProject", !.fid = nextFetch + 1]]
                /\ nextFetch' = nextFetch + 1
    /\ UNCHANGED <<serverVars, clientVars, helperVars>>
    /\ UNCHANGED <<now, ticks, envKey, metadataCache, milestoneCache, fetchLog>>

\* await client.project(projectId) resolves: project.projectMilestones issued
ProjectResolved(c) ==
    /\ call[c].pc = "awaitProject"
    /\ call' = [call EXCEPT ![c].pc = "awaitMilestones"]
    /\ UNCHANGED <<serverVars, clientVars, helperVars>>
    /\ UNCHANGED <<now, ticks, envKey, metadataCache, milestoneCache,
                   nextFetch, fetchLog, invocations>>

\* await project.projectMilestones resolves: milestoneCache.set, return
MilestonesFetchComplete(c) ==
    /\ call[c].pc = "awaitMilestones"
    /\ LET milestones == BuildMilestones(c)
       IN  /\ milestoneCache' = [milestoneCache EXCEPT ![call[c].key] = NewEntry(milestones)]
           /\ call' = [call EXCEPT ![c].pc = "returned", ![c].result = milestones]
           /\ fetchLog' = fetchLog \cup
                 {[fetch |-> call[c].fid, op |-> "milestones", key |-> call[c].key,
                   data |-> milestones, doneAt |-> now]}
    /\ UNCHANGED <<serverVars, clientVars, helperVars>>
    /\ UNCHANGED <<now, ticks, envKey, metadataCache, nextFetch, invocations>>

\* a variant that caches the empty list it returns
MilestonesFetchFailedCaching(c, kind) ==
    /\ call[c].pc \in {"awaitProject", "awaitMilestones"}
    /\ call' = [call EXCEPT ![c].pc = "returned", ![c].upstream = kind,
                            ![c].result = EmptyMilestones]
    /\ milestoneCache' = [milestoneCache EXCEPT ![call[c].key] = NewEntry(EmptyMilestones)]
    /\ UNCHANGED <<serverVars, clientVars, helperVars>>
    /\ UNCHANGED <<now, ticks, envKey, metadataCache, nextFetch, fetchLog, invocations>>

\* any awaited request rejects: catch (e) { console.error(...); return []; }
MilestonesFetchFailed(c, kind) ==
    /\ call[c].pc \in {"awaitProject", "awaitMilestones"}
    /\ call' = [call EXCEPT ![c].pc = "returned", ![c].upstream = kind,
                            ![c].result = EmptyMilestones]
    /\ UNCHANGED <<serverVars, clientVars, helperVars>>
    /\ UNCHANGED <<now, ticks, envKey, metadataCache, milestoneCache,
                   nextFetch, fetchLog, invocations>>

-----------------------------------------------------------------------------
(* The caller takes the outcome; the clock advances *)

CallerContinues(c) ==
    /\ call[c].pc \in {"returned", "threw"}
    /\ call' = [call EXCEPT ![c] = IdleCall]
    /\ UNCHANGED <<serverVars, clientVars, helperVars>>
    /\ UNCHANGED <<now, ticks, envKey, metadataCache, milestoneCache,
                   nextFetch, fetchLog, invocations>>

TickSteps == {CACHE_TTL - 1, CACHE_TTL}

Tick(d) ==
    /\ ticks < MaxTicks
    /\ now' = now + d
    /\ ticks' = ticks + 1
    /\ UNCHANGED <<serverVars, clientVars, helperVars>>
    /\ UNCHANGED <<envKey, metadataCache, milestoneCache, call, nextFetch,
                   fetchLog, invocations>>

UpstreamFailures == {"auth", "other"}

InitCache ==
    /\ now = 0
    /\ ticks = 0
    /\ envKey \in EnvKeys
    /\ metadataCache = [t \in TeamIds |-> NoEntry]
    /\ milestoneCache = [p \in Projects |-> NoEntry]
    /\ call = [c \in Callers |-> IdleCall]
    /\ nextFetch = 0
    /\ fetchLog = {}
    /\ invocations = 0

InitServer ==
    /\ req = IdleRequest
    /\ results = <<>>
    /\ outcomes = <<>>
    /\ sent = <<>>
    /\ response = NoResponse

\* no helper function is under evaluation
NoArgs == [kind |-> "none"]

NoReturn == [op |-> "none"]

\* what a call was given and what it returned
Call(op, times, given, out) == [op |-> op, times |-> times, given |-> given, out |-> out]

InitNoHelper ==
    /\ args = NoArgs
    /\ ret = NoReturn

\* the inspector before any plan has arrived
InitNoPlan ==
    /\ items = <<>>
    /\ root = "none"
    /\ executing = FALSE
    /\ flights = <<>>
    /\ submitted = [j \in 0..PlanSize |-> 0]

NextCache ==
    \/ \E c \in Callers, t \in Teams, force \in BOOLEAN, k \in ApiKeys :
          GetTeamMetadataCall(c, t, force, k)
    \/ \E c \in Callers : TeamResolved(c)
    \/ \E c \in Callers : TeamFetchComplete(c)
    \/ \E c \in Callers, kind \in UpstreamFailures : TeamFetchFailed(c, kind)
    \/ \E c \in Callers, p \in Projects, force \in BOOLEAN, k \in ApiKeys :
          GetProjectMilestonesCall(c, p, force, k)
    \/ \E c \in Callers : ProjectResolved(c)
    \/ \E c \in Callers : MilestonesFetchComplete(c)
    \/ \E c \in Callers, kind \in UpstreamFailures : MilestonesFetchFailed(c, kind)
    \/ \E c \in Callers : CallerContinues(c)
    \/ \E d \in TickSteps : Tick(d)

\* the server at start-up: empty caches, no request, no plan in the browser
Init == InitCache /\ InitServer /\ InitNoPlan /\ InitNoHelper

SpecCache == Init /\ [][NextCache]_vars

-----------------------------------------------------------------------------
(* Errors as the server sees them.  An error is {status, errors[0].message,  *)
(* errors[].userError, message}; absent fields are 0 / "" / FALSE.            *)

NoErr == [status |-> 0, linearMsg |-> "", userError |-> FALSE, message |-> ""]
ErrAuthStatus ==
    [status |-> 401, linearMsg |-> "", userError |-> FALSE, message |-> "Unauthorized"]
ErrAuthMessage ==
    [status |-> 0, linearMsg |-> "", userError |-> FALSE, message |-> "Not authenticated"]
ErrUser ==
    [status |-> 0, linearMsg |-> "Label not found", userError |-> TRUE,
     message |-> "GraphQL request failed"]
ErrNetwork ==
    [status |-> 0, linearMsg |-> "", userError |-> FALSE, message |-> "fetch failed"]
ErrBlank ==
    [status |-> 503, linearMsg |-> " ", userError |-> FALSE, message |-> ""]

UpstreamErrors == {ErrAuthStatus, ErrAuthMessage, ErrUser, ErrNetwork, ErrBlank}

\* new Error(message)
Thrown(message) ==
    [status |-> 0, linearMsg |-> "", userError |-> FALSE, message |-> message]

\* s.trim().length > 0
nonBlank(s) == s \notin {"", " "}

\* err.message?.includes('authenticated')
includesAuthenticated(message) == message \in {"Not authenticated"}

\* safeExecute: err.status === 401 || err.message?.includes('authenticated')
isAuthError(err) == err.status = 401 \/ includesAuthenticated(err.message)

getClientErrorStatus(e) ==
    IF e.userError THEN 400
    ELSE IF e.status >= 400 /\ e.status < 600 THEN e.status
    ELSE 500

getClientErrorMessage(e) ==
    IF nonBlank(e.linearMsg) THEN e.linearMsg
    ELSE IF nonBlank(e.message) THEN e.message
    ELSE "Execution failed"

-----------------------------------------------------------------------------
(* Outcomes of an awaited service operation: what it returned or threw, the  *)
(* tracker calls it issued, and the metadata and milestone caches it left.    *)

NoData == [source |-> "none"]
MockData(op) == [source |-> "mock", of |-> op]
LiveData(op) == [source |-> "tracker", of |-> op]

Returned(data, calls, mcache) ==
    [threw |-> FALSE, err |-> NoErr, data |-> data, calls |-> calls, mcache |-> mcache,
     mscache |-> milestoneCache]

Threw(err, calls, mcache) ==
    [threw |-> TRUE, err |-> err, data |-> NoData, calls |-> calls, mcache |-> mcache,
     mscache |-> milestoneCache]

\* the outcome of an operation that left the milestone cache so
Caching(mscache, o) == [o EXCEPT !.mscache = mscache]

WithCalls(prefix, o) == [o EXCEPT !.calls = prefix \o @]

\* the input object of a mutation: its keys, and the values of the fields a
\* review shows; NoInput for a call that carries none
NoInput == [keys |-> {}]

\* one request to the tracker; item and handler are filled in by the handler
TrackerCall(op, kind, labelIds, ok) ==
    [op |-> op, kind |-> kind, labelIds |-> labelIds, ok |-> ok,
     item |-> 0, handler |-> "", input |-> NoInput]

\* the outcome of a mutation whose call carried this input object
Sending(linearPayload, o) ==
    [o EXCEPT !.calls = [j \in DOMAIN @ |->
                           IF @[j].kind = "mutation"
                           THEN [@[j] EXCEPT !.input = linearPayload] ELSE @[j]]]

\* an awaited tracker request: it resolves, or rejects with an upstream error
request(op, kind, labelIds, mcache) ==
    {Returned(LiveData(op), <<TrackerCall(op, kind, labelIds, TRUE)>>, mcache)}
    \cup {Threw(e, <<TrackerCall(op, kind, labelIds, FALSE)>>, mcache) :
            e \in UpstreamErrors}

\* create/update mutation: the tracker may answer without the entity
entityRequest(op, labelIds, message, mcache) ==
    request(op, "mutation", labelIds, mcache)
    \cup {Threw(Thrown(message), <<TrackerCall(op, "mutation", labelIds, TRUE)>>, mcache)}

safeExecute(operation, mockData, apiKey, mcache) ==
    IF shouldMock(apiKey)
    THEN {Returned(mockData, <<>>, mcache)}
    ELSE {IF o.threw /\ isAuthError(o.err)
          THEN Caching(o.mscache, Returned(mockData, o.calls, o.mcache))
          ELSE o : o \in operation}

-----------------------------------------------------------------------------
(* Text as linear.ts sees it.  A description is undefined or a string; a    *)
(* string is the sequence of its lines (split on \r?\n, so '' is one empty  *)
(* line).  A line is its leading whitespace, what it is (blank, ordinary    *)
(* text, or a "Phase:" line), its markup ('#' of a header, '**' of a bold   *)
(* phase marker), its words, and for a phase line its value.  The value of  *)
(* a phase line, like a phase or milestone hint, is a P-code (or none),     *)
(* whether the code comes first, and the name around it.                     *)

MaxLines == 3
MaxPriorityLines == 1

NoCode == 0 - 1

PhaseValue(code, codeFirst, name) == [code |-> code, codeFirst |-> codeFirst, name |-> name]

\* an absent or empty hint (undefined, null, '')
NoPhase == PhaseValue(NoCode, FALSE, "")

\* a hint of whitespace only
BlankPhase == PhaseValue(NoCode, FALSE, " ")

PhaseValues ==
    { PhaseValue(1, TRUE, "Beta"),        \* "P1: Beta"
      PhaseValue(NoCode, FALSE, "Alpha"), \* "Alpha"
      PhaseValue(0, TRUE, "") }           \* "p0"

Line(lead, kind, mark, words, value) ==
    [lead |-> lead, kind |-> kind, mark |-> mark, words |-> words, value |-> value]

EmptyLine == Line(0, "blank", "", "", NoPhase)

TextLine(lead, mark, words) == Line(lead, "text", mark, words, NoPhase)

PhaseLine(lead, mark, value) == Line(lead, "phase", mark, "", value)

\* a title is a string; "" stands for an absent one
Titles == {"", "Fix login", "Steps..."}

Lines ==
    { EmptyLine, Line(1, "blank", "", "", NoPhase),
      TextLine(0, "", "Fix login"), TextLine(0, "#", "FIX  login!"),
      TextLine(1, "", "Steps...") }
    \cup { PhaseLine(0, "**", v) : v \in {PhaseValue(1, TRUE, "Beta")} }
    \cup { PhaseLine(0, "", v) : v \in {PhaseValue(NoCode, FALSE, "Alpha")} }
    \cup { PhaseLine(1, "", v) : v \in {PhaseValue(0, TRUE, "")} }

Undefined == [defined |-> FALSE, lines |-> <<>>]

Text(lines) == [defined |-> TRUE, lines |-> lines]

EmptyText == Text(<<EmptyLine>>)

\* !description : undefined, null or ''
falsyText(description) == ~description.defined \/ description = EmptyText

TextsUpTo(n) == {Undefined} \cup {Text(l) : l \in UNION {[1..k -> Lines] : k \in 1..n}}

isBlankLine(line) == line.kind = "blank"

\* String.prototype.trim of one line (trailing whitespace is not modelled)
trimLine(line) == [line EXCEPT !.lead = 0]

\* lines.join('\n').trimStart()
RECURSIVE dropLeadingBlank(_)
dropLeadingBlank(lines) ==
    IF lines = <<>> THEN <<>>
    ELSE IF isBlankLine(Head(lines)) THEN dropLeadingBlank(Tail(lines))
    ELSE lines

joinTrimStart(lines) ==
    LET rest == dropLeadingBlank(lines)
    IN  IF rest = <<>> THEN <<EmptyLine>>
        ELSE <<trimLine(Head(rest))>> \o Tail(rest)

\* lines.splice(index, 1); while (lines[index] is blank) lines.splice(index, 1)
spliceWithBlanks(lines, index) ==
    SubSeq(lines, 1, index - 1) \o dropLeadingBlank(SubSeq(lines, index + 1, Len(lines)))

\* trim, lower-case, collapse whitespace, drop punctuation
normalizeComparableText(words) ==
    CASE words = "Fix login"   -> "fix login"
      [] words = "FIX  login!" -> "fix login"
      [] words = "Steps..."    -> "steps"
      [] OTHER                 -> words

\* the text compared with the title: the header's text after '#', or the
\* whole trimmed line
comparableLine(line) ==
    IF line.kind = "phase" THEN "phase " \o line.value.name
    ELSE normalizeComparableText(line.words)

firstIndex(lines, Test(_)) ==
    IF \E j \in DOMAIN lines : Test(lines[j])
    THEN CHOOSE j \in DOMAIN lines :
             Test(lines[j]) /\ \A k \in 1..(j - 1) : ~Test(lines[k])
    ELSE 0

isNotBlankLine(line) == ~isBlankLine(line)

stripTitleFromDescription(title, description) ==
    IF title = "" \/ falsyText(description) THEN description
    ELSE LET lines == description.lines
             index == firstIndex(lines, isNotBlankLine)
         IN  IF index = 0 THEN description
             ELSE IF comparableLine(trimLine(lines[index])) # normalizeComparableText(title)
                  THEN description
                  ELSE Text(joinTrimStart(spliceWithBlanks(lines, index)))

\* /^\s*(?:\*\*phase:\*\*|phase:)\s*(.+?)\s*$/i
phasePattern(line) == line.kind = "phase"

extractPhaseAndStripFromDescription(description) ==
    IF falsyText(description) THEN [phase |-> NoPhase, description |-> description]
    ELSE LET lines == description.lines
             i == firstIndex(lines, phasePattern)
         IN  IF i = 0 THEN [phase |-> NoPhase, description |-> description]
             ELSE [phase |-> lines[i].value,
                   description |-> Text(joinTrimStart(spliceWithBlanks(lines, i)))]

\* P0 -> 1 (Urgent), P1 -> 2 (High), P2 -> 3 (Normal), P3 and P4 -> 4 (Low)
levelPriority(level) ==
    IF level <= 0 THEN 1
    ELSE IF level = 1 THEN 2
    ELSE IF level = 2 THEN 3
    ELSE 4

\* undefined, where a priority is expected
NoPriority == 0 - 1

\* typeof phase === 'string' && phase.trim().length > 0
nonBlankPhase(phase) == phase.code # NoCode \/ phase.name \notin {"", " "}

\* /\*\*phase:\*\*\s*(p[0-4])\b/i
boldPhaseCode(line) ==
    line.kind = "phase" /\ line.mark = "**" /\ line.value.codeFirst /\ line.value.code # NoCode

\* /^\s*phase:\s*(p[0-4])\b/im
plainPhaseCode(line) ==
    line.kind = "phase" /\ line.mark = "" /\ line.value.codeFirst /\ line.value.code # NoCode

inferPriorityFromText(description, phase) ==
    IF nonBlankPhase(phase)
    THEN IF phase.code = NoCode THEN NoPriority ELSE levelPriority(phase.code)
    ELSE IF falsyText(description) THEN NoPriority
    ELSE LET lines == description.lines
             bold == firstIndex(lines, boldPhaseCode)
             plain == firstIndex(lines, plainPhaseCode)
         IN  IF bold # 0 THEN levelPriority(lines[bold].value.code)
             ELSE IF plain # 0 THEN levelPriority(lines[plain].value.code)
             ELSE NoPriority

\* A submitted priority: absent (undefined, null, ''), a number (in tenths,
\* so that 27 is 2.7), a non-finite number, or a string.
Absent == [type |-> "absent", tenths |-> 0, text |-> ""]

Number(tenths) == [type |-> "number", tenths |-> tenths, text |-> ""]

NotFinite == [type |-> "nan", tenths |-> 0, text |-> "NaN"]

String(text) == [type |-> "string", tenths |-> 0, text |-> text]

Numbers == {Number(t) : t \in {0 - 10, 0 - 4, 0, 4, 10, 20, 27, 40, 49, 50}}

Strings ==
    {String(t) : t \in {"none", "NONE", "No Priority", "no-priority", " P0 ", "p1",
                        "urgent", "High", "medium", "low", "p4",
                        "0", "2", "4", "5", "-1", "foo"}}

PriorityValues == {Absent, NotFinite} \cup Numbers \cup Strings

\* Math.trunc of a number given in tenths
trunc(tenths) == IF tenths >= 0 THEN tenths \div 10 ELSE 0 - ((0 - tenths) \div 10)

\* String(value).trim().toLowerCase().replace(/\s+/g, '')
rawPriority(text) ==
    CASE text = "NONE"        -> "none"
      [] text = "No Priority" -> "nopriority"
      [] text = " P0 "        -> "p0"
      [] text = "High"        -> "high"
      [] text = "NaN"         -> "nan"
      [] OTHER                -> text

\* the lookup table of priority names; NoPriority where the name is not a key
priorityMap(raw) ==
    CASE raw \in {"urgent", "p0"}                 -> 1
      [] raw \in {"high", "p1"}                   -> 2
      [] raw \in {"normal", "medium", "p2"}       -> 3
      [] raw \in {"low", "p3", "p4"}              -> 4
      [] raw \in {"none", "nopriority", "no-priority"} -> 0
      [] OTHER                                    -> NoPriority

NaN == [nan |-> TRUE, n |-> 0]

Parsed(n) == [nan |-> FALSE, n |-> n]

\* parseInt(raw, 10)
parseInt(raw) ==
    CASE raw = "0"  -> Parsed(0)
      [] raw = "2"  -> Parsed(2)
      [] raw = "4"  -> Parsed(4)
      [] raw = "5"  -> Parsed(5)
      [] raw = "-1" -> Parsed(0 - 1)
      [] OTHER      -> NaN

\* a variant that takes every in-range number, 0 included, as explicit
normalizeIssuePriorityZeroExplicit(value, description, phase) ==
    LET inferred == inferPriorityFromText(description, phase)
    IN  IF value.type = "absent" THEN inferred
        ELSE IF value.type = "number"
        THEN LET n == trunc(value.tenths)
             IN  IF n >= 0 /\ n <= 4 THEN n ELSE inferred
        ELSE LET raw == rawPriority(value.text)
                 parsed == parseInt(raw)
             IN  IF priorityMap(raw) # NoPriority THEN priorityMap(raw)
                 ELSE IF ~parsed.nan /\ parsed.n >= 0 /\ parsed.n <= 4 THEN parsed.n
                 ELSE inferred

normalizeIssuePriority(value, description, phase) ==
    LET inferred == inferPriorityFromText(description, phase)
    IN  IF value.type = "absent" THEN inferred
        ELSE IF value.type = "number"
        THEN LET n == trunc(value.tenths)
             IN  IF n = 0 /\ inferred # NoPriority THEN inferred
                 ELSE IF n >= 0 /\ n <= 4 THEN n
                 ELSE inferred
        ELSE LET raw == rawPriority(value.text)
                 parsed == parseInt(raw)
             IN  IF priorityMap(raw) # NoPriority THEN priorityMap(raw)
                 ELSE IF ~parsed.nan /\ parsed.n = 0 /\ inferred # NoPriority THEN inferred
                 ELSE IF ~parsed.nan /\ parsed.n >= 0 /\ parsed.n <= 4 THEN parsed.n
                 ELSE inferred

\* Normalised text as its words, for the comparisons of milestone matching
pCode(code) == <<"p0", "p1", "p2", "p3", "p4">>[code + 1]

lowerName(name) ==
    CASE name = "Beta"          -> <<"beta">>
      [] name = "Alpha"         -> <<"alpha">>
      [] name = "Sprint"        -> <<"sprint">>
      [] name = "Alpha Release" -> <<"alpha", "release">>
      [] name = "Beta Release"  -> <<"beta", "release">>
      [] OTHER                  -> <<>>

codeWords(hint) == IF hint.code = NoCode THEN <<>> ELSE <<pCode(hint.code)>>

\* normalizeComparableText of the whole hint: "P1: Beta" is <<"p1", "beta">>
hintWords(hint) ==
    IF hint.codeFirst THEN codeWords(hint) \o lowerName(hint.name)
    ELSE lowerName(hint.name) \o codeWords(hint)

\* the hint itself, the parts around its colon, and its P-code
buildMilestoneMatchCandidates(hint) ==
    {hintWords(hint), codeWords(hint)}
    \cup (IF hint.codeFirst /\ hint.code # NoCode THEN {lowerName(hint.name)} ELSE {})

startsWithWords(a, b) == Len(b) <= Len(a) /\ SubSeq(a, 1, Len(b)) = b

includesWords(a, b) ==
    \E k \in 0..(Len(a) - Len(b)) : SubSeq(a, k + 1, k + Len(b)) = b

RECURSIVE textLength(_)
\* the length of the text in characters
textLength(words) ==
    IF words = <<>> THEN 0
    ELSE Len(Head(words)) + (IF Len(words) > 1 THEN 1 ELSE 0) + textLength(Tail(words))

\* 3 exact, 2 prefix either way, 1 containment either way, 0 no match
matchScore(name, candidate) ==
    IF candidate = <<>> THEN 0
    ELSE IF name = candidate THEN 3
    ELSE IF startsWithWords(name, candidate) \/ startsWithWords(candidate, name) THEN 2
    ELSE IF includesWords(name, candidate) \/ includesWords(candidate, name) THEN 1
    ELSE 0

\* a milestone's name is text like a hint's
Milestone(id, name) == [id |-> id, name |-> name]

NoMilestone == Milestone("", NoPhase)

\* scored.sort((a, b) => b.score - a.score || b.length - a.length), stable
betterScore(a, b) ==
    \/ a.score > b.score
    \/ a.score = b.score /\ a.length > b.length
    \/ a.score = b.score /\ a.length = b.length /\ a.at < b.at

\* the first milestone that scores at all, whatever its score
findFirstScoringMilestone(milestones, hint) ==
    LET at == {j \in DOMAIN milestones :
                 \E c \in buildMilestoneMatchCandidates(hint) :
                    matchScore(hintWords(milestones[j].name), c) > 0}
    IN  IF hint = NoPhase \/ at = {} THEN NoMilestone
        ELSE milestones[CHOOSE j \in at : \A k \in at : j <= k]

findProjectMilestoneMatch(milestones, hint) ==
    LET scored == {[score |-> matchScore(hintWords(milestones[j].name), c),
                    length |-> textLength(c),
                    at |-> j, milestone |-> milestones[j]] :
                      j \in DOMAIN milestones, c \in buildMilestoneMatchCandidates(hint)}
        matched == {s \in scored : s.score > 0}
    IN  IF hint = NoPhase \/ matched = {} THEN NoMilestone
        ELSE (CHOOSE s \in matched :
                 \A o \in matched : o.at = s.at \/ betterScore(s, o)).milestone

-----------------------------------------------------------------------------
(* Labels of the team and label-group exclusivity *)

Label(id, parentId) == [id |-> id, parentId |-> parentId]

\* labels of the tracker's team: l2 and l3 are children of the group g1
TrackerLabels == <<Label("g1", ""), Label("l1", ""), Label("l2", "g1"), Label("l3", "g1")>>
MockLabels == <<Label("mock-label-bug", ""), Label("mock-label-feat", "")>>

\* metadata.labels of a descriptor
LabelsOf(data) == IF data.fetch = 0 THEN MockLabels ELSE TrackerLabels

\* byId.get(id)?.parentId, with byId = new Map(labels.map(l => [l.id, l]))
parentIdOf(labels, id) ==
    LET at == {j \in 1..Len(labels) : labels[j].id = id}
    IN  IF at = {} THEN ""
        ELSE labels[CHOOSE j \in at : \A k \in at : k <= j].parentId

RECURSIVE enforceLoop(_, _, _, _, _, _)
enforceLoop(labelIds, labels, i, seenIds, usedParentIds, acc) ==
    IF i > Len(labelIds) THEN acc
    ELSE LET id == labelIds[i]
             parentId == parentIdOf(labels, id)
         IN  IF id \in seenIds
             THEN enforceLoop(labelIds, labels, i + 1, seenIds, usedParentIds, acc)
             ELSE IF parentId # "" /\ parentId \in usedParentIds
             THEN enforceLoop(labelIds, labels, i + 1, seenIds \cup {id}, usedParentIds,
                              [acc EXCEPT !.droppedLabelIds = Append(@, id)])
             ELSE enforceLoop(labelIds, labels, i + 1, seenIds \cup {id},
                              IF parentId # "" THEN usedParentIds \cup {parentId}
                                               ELSE usedParentIds,
                              [acc EXCEPT !.labelIds = Append(@, id)])

\* a variant that removes repeated ids and never looks at the parents
enforceDedupeOnly(labelIds, labels) ==
    IF Len(labelIds) < 2 \/ Len(labels) = 0
    THEN [labelIds |-> labelIds, droppedLabelIds |-> <<>>]
    ELSE enforceLoop(labelIds, <<>>, 1, {}, {},
                     [labelIds |-> <<>>, droppedLabelIds |-> <<>>])

enforceNothing(labelIds, labels) ==
    [labelIds |-> labelIds, droppedLabelIds |-> <<>>]

enforceExclusiveChildLabelIds(labelIds, labels) ==
    IF Len(labelIds) < 2 \/ Len(labels) = 0
    THEN [labelIds |-> labelIds, droppedLabelIds |-> <<>>]
    ELSE enforceLoop(labelIds, labels, 1, {}, {},
                     [labelIds |-> <<>>, droppedLabelIds |-> <<>>])

-----------------------------------------------------------------------------
(* Service operations of linear.ts, each awaited as a whole *)

\* the descriptor a live fetch stores, awaited as a whole
FetchedMetadata(teamId, apiKey) ==
    [kind |-> "team", key |-> teamId, fetch |-> nextFetch + 1,
     cred |-> effectiveKey(apiKey), facetOf |-> [f \in Facets |-> nextFetch + 1]]

getTeamMetadata(teamId, apiKey, mcache) ==
    IF CacheHit(mcache, teamId, FALSE)
    THEN {Returned(mcache[teamId].data, <<>>, mcache)}
    ELSE IF shouldMock(apiKey)
    THEN {Returned(MockMetadata(teamId), <<>>, mcache)}
    ELSE {Returned(FetchedMetadata(teamId, apiKey),
                   <<TrackerCall("team", "read", <<>>, TRUE)>>,
                   [mcache EXCEPT ![teamId] = NewEntry(FetchedMetadata(teamId, apiKey))])}
         \cup {Threw(e, <<TrackerCall("team", "read", <<>>, FALSE)>>, mcache) :
                 e \in UpstreamErrors}

\* createIssue / updateIssue: getTeamMetadata + enforceExclusiveChildLabelIds
\* inside try { } catch { proceed without label group enforcement }
enforcedLabelIds(labelIds, lookup) ==
    IF lookup.threw THEN labelIds
    ELSE enforceExclusiveChildLabelIds(labelIds, LabelsOf(lookup.data)).labelIds

\* the names of the fields a payload carries
presentKeys(payload) ==
    {"teamId"}
    \cup (IF payload.id # "" THEN {"id"} ELSE {})
    \cup (IF payload.title # "" THEN {"title"} ELSE {})
    \cup (IF payload.name # "" THEN {"name"} ELSE {})
    \cup (IF payload.given THEN {"labelIds"} ELSE {})
    \cup (IF payload.description.defined THEN {"description"} ELSE {})
    \cup (IF payload.priority # Absent THEN {"priority"} ELSE {})
    \cup (IF payload.projectId # "" THEN {"projectId"} ELSE {})
    \cup (IF payload.projectMilestoneId # "" THEN {"projectMilestoneId"} ELSE {})
    \cup (IF payload.projectMilestoneName # NoPhase THEN {"projectMilestoneName"} ELSE {})
    \cup (IF payload.milestoneName # NoPhase THEN {"milestoneName"} ELSE {})
    \cup (IF payload.phase # NoPhase THEN {"phase"} ELSE {})
    \cup payload.helpers

\* a variant that spreads the whole payload into the input object
pickAll(payload, names) == presentKeys(payload)

\* const { a, b, ... } = payload: the named fields the payload carries
pick(payload, names) == presentKeys(payload) \cap names

\* the descriptor a live fetch of a project's milestones stores; the fetches
\* of milestones are not told apart here
FetchedMilestones(projectId, apiKey) ==
    [kind |-> "milestones", key |-> projectId, fetch |-> 1,
     cred |-> effectiveKey(apiKey)]

TrackerMilestones ==
    <<Milestone("ms-1", PhaseValue(NoCode, FALSE, "Beta")),
      Milestone("ms-2", PhaseValue(1, TRUE, "Beta"))>>

\* the list of {id, name} of a descriptor
MilestonesOf(data) ==
    IF data.kind # "milestones" THEN <<>>
    ELSE IF data.fetch = 0
    THEN <<Milestone("mock-ms-1", PhaseValue(NoCode, FALSE, "Alpha Release")),
           Milestone("mock-ms-2", PhaseValue(NoCode, FALSE, "Beta Release"))>>
    ELSE TrackerMilestones

\* getProjectMilestones(projectId, { apiKey }), awaited as a whole: a failed
\* fetch is caught and gives []
getProjectMilestones(projectId, apiKey, mscache) ==
    IF CacheHit(mscache, projectId, FALSE)
    THEN {[data |-> mscache[projectId].data, calls |-> <<>>, mscache |-> mscache]}
    ELSE IF shouldMock(apiKey)
    THEN {[data |-> MockMilestones(projectId), calls |-> <<>>, mscache |-> mscache]}
    ELSE {[data |-> FetchedMilestones(projectId, apiKey),
           calls |-> <<TrackerCall("milestones", "read", <<>>, TRUE)>>,
           mscache |-> [mscache EXCEPT
                          ![projectId] = NewEntry(FetchedMilestones(projectId, apiKey))]],
          [data |-> EmptyMilestones,
           calls |-> <<TrackerCall("milestones", "read", <<>>, FALSE)>>,
           mscache |-> mscache]}

NoLookup == [data |-> EmptyMilestones, calls |-> <<>>, mscache |-> milestoneCache]

\* payload.projectMilestoneName || payload.milestoneName || payload.phase
milestoneHintOf(payload) ==
    IF payload.projectMilestoneName # NoPhase THEN payload.projectMilestoneName
    ELSE IF payload.milestoneName # NoPhase THEN payload.milestoneName
    ELSE payload.phase

\* the object given to client.createIssue / issue.update
IssueInput(keys, description, priority, projectId, projectMilestoneId) ==
    [keys |-> keys, description |-> description, priority |-> priority,
     projectId |-> projectId, projectMilestoneId |-> projectMilestoneId]

definedKeys(description, priority, projectId, projectMilestoneId) ==
    (IF description.defined THEN {"description"} ELSE {})
    \cup (IF priority # NoPriority THEN {"priority"} ELSE {})
    \cup (IF projectId # "" THEN {"projectId"} ELSE {})
    \cup (IF projectMilestoneId # "" THEN {"projectMilestoneId"} ELSE {})

\* a variant that keeps the milestone whatever the project
keepMilestone(projectMilestoneId, projectId) == projectMilestoneId

\* if (resolvedProjectMilestoneId && !projectId) resolvedProjectMilestoneId = undefined
dropWithoutProject(projectMilestoneId, projectId) ==
    IF projectMilestoneId # "" /\ projectId = "" THEN "" ELSE projectMilestoneId

\* a variant that removes the Phase line whether a milestone is set or not
alwaysWithoutPhase(projectMilestoneId, withoutPhaseDescription, titleStrippedDescription) ==
    IF withoutPhaseDescription.defined THEN withoutPhaseDescription
    ELSE titleStrippedDescription

\* resolvedProjectMilestoneId && typeof withoutPhaseDescription === 'string'
\*     ? withoutPhaseDescription : titleStrippedDescription
finalDescriptionOf(projectMilestoneId, withoutPhaseDescription, titleStrippedDescription) ==
    IF projectMilestoneId # "" /\ withoutPhaseDescription.defined
    THEN withoutPhaseDescription ELSE titleStrippedDescription

createIssue(payload, apiKey, mcache) ==
    LET milestoneHint == milestoneHintOf(payload)
        titleStrippedDescription ==
            stripTitleFromDescription(payload.title, payload.description)
        extracted == extractPhaseAndStripFromDescription(titleStrippedDescription)
        normalizedPriority ==
            normalizeIssuePriority(payload.priority, extracted.description,
                                   IF milestoneHint # NoPhase THEN milestoneHint
                                   ELSE extracted.phase)
        givenMilestoneId ==
            dropWithoutProject(payload.projectMilestoneId, payload.projectId)
        milestoneHintResolved ==
            IF nonBlankPhase(milestoneHint) THEN milestoneHint ELSE extracted.phase
        search == givenMilestoneId = "" /\ payload.projectId # ""
                    /\ nonBlankPhase(milestoneHintResolved)
        found == IF search THEN getProjectMilestones(payload.projectId, apiKey, milestoneCache)
                 ELSE {NoLookup}
        wanted == payload.given /\ Len(payload.labelIds) > 1
        lookups == IF wanted THEN getTeamMetadata(payload.teamId, apiKey, mcache)
                             ELSE {Returned(NoData, <<>>, mcache)}
    IN  UNION {
          LET match == findProjectMilestoneMatch(MilestonesOf(ms.data), milestoneHintResolved)
              resolvedProjectMilestoneId ==
                  IF search /\ match # NoMilestone THEN match.id ELSE givenMilestoneId
              finalDescription ==
                  finalDescriptionOf(resolvedProjectMilestoneId, extracted.description,
                                     titleStrippedDescription)
              labelIds == IF wanted THEN enforcedLabelIds(payload.labelIds, m)
                                    ELSE payload.labelIds
              linearPayload ==
                  IssueInput(pick(payload, {"teamId", "title", "labelIds"})
                               \cup definedKeys(finalDescription, normalizedPriority,
                                                payload.projectId, resolvedProjectMilestoneId),
                             finalDescription, normalizedPriority, payload.projectId,
                             resolvedProjectMilestoneId)
          IN  {Caching(ms.mscache, Sending(linearPayload, WithCalls(ms.calls \o m.calls, o))) :
                 o \in safeExecute(
                          entityRequest("createIssue", labelIds,
                                        "Failed to create issue", m.mcache),
                          MockData("createIssue"), apiKey, m.mcache)}
          : ms \in found, m \in lookups}

\* the issue client.issue(input.id) resolves to
ExistingIssue ==
    [id |-> "uuid-1", title |-> "T0", labelIds |-> <<"l1">>, teamId |-> "t1",
     description |-> Undefined, priority |-> 0, projectId |-> "",
     projectMilestoneId |-> ""]

\* the issue uuid-2 belongs to the project p1; so does uuid-3, which already
\* has the milestone ms-1
issueOf(id) ==
    IF id = "uuid-2" THEN [ExistingIssue EXCEPT !.id = id, !.projectId = "p1"]
    ELSE IF id = "uuid-3"
    THEN [ExistingIssue EXCEPT !.id = id, !.projectId = "p1", !.projectMilestoneId = "ms-1"]
    ELSE ExistingIssue

Count(seq, x) == Cardinality({j \in 1..Len(seq) : seq[j] = x})

\* equal after sorting
sameStringArray(a, b) ==
    /\ Len(a) = Len(b)
    /\ \A j \in 1..Len(a) : Count(a, a[j]) = Count(b, a[j])

\* the keys of updatePayload that hold a field of the input as it was given
updateKeys(input, issue) ==
    (IF input.title # "" /\ input.title # issue.title THEN {"title"} ELSE {})
    \cup (IF input.given /\ ~sameStringArray(input.labelIds, issue.labelIds)
          THEN {"labelIds"} ELSE {})
    \cup (IF input.projectId # "" /\ input.projectId # issue.projectId
          THEN {"projectId"} ELSE {})
    \cup (IF input.projectMilestoneId # ""
             /\ input.projectMilestoneId # issue.projectMilestoneId
          THEN {"projectMilestoneId"} ELSE {})

\* the body of updateIssue's operation once client.issue(input.id) resolved
updateIssueWith(input, issue, apiKey, calls, mcache) ==
    LET milestoneHint == milestoneHintOf(input)
        wantsDescriptionUpdate ==
            input.description.defined /\ input.description # issue.description
        titleForDescription == IF input.title # "" THEN input.title ELSE issue.title
        titleStrippedDescription ==
            IF wantsDescriptionUpdate
            THEN stripTitleFromDescription(titleForDescription, input.description)
            ELSE input.description
        extracted ==
            IF wantsDescriptionUpdate
            THEN extractPhaseAndStripFromDescription(titleStrippedDescription)
            ELSE [phase |-> NoPhase, description |-> titleStrippedDescription]
        normalizedPriority ==
            IF input.priority # Absent \/ wantsDescriptionUpdate
            THEN normalizeIssuePriority(input.priority, extracted.description,
                                        IF milestoneHint # NoPhase THEN milestoneHint
                                        ELSE extracted.phase)
            ELSE NoPriority
        effectiveProjectId ==
            IF input.projectId # "" THEN input.projectId ELSE issue.projectId
        givenMilestoneId ==
            dropWithoutProject(input.projectMilestoneId, effectiveProjectId)
        dropped == givenMilestoneId # input.projectMilestoneId
        given == (pick(input, {"title", "labelIds", "projectId", "projectMilestoneId"})
                    \cap updateKeys(input, issue))
                 \ (IF dropped THEN {"projectMilestoneId"} ELSE {})
        milestoneHintResolved ==
            IF nonBlankPhase(milestoneHint) THEN milestoneHint ELSE extracted.phase
        search == givenMilestoneId = "" /\ effectiveProjectId # ""
                    /\ nonBlankPhase(milestoneHintResolved)
        found == IF search THEN getProjectMilestones(effectiveProjectId, apiKey, milestoneCache)
                 ELSE {NoLookup}
        wanted == "labelIds" \in given /\ Len(input.labelIds) > 1 /\ issue.teamId # ""
        lookups == IF wanted THEN getTeamMetadata(issue.teamId, apiKey, mcache)
                             ELSE {Returned(NoData, <<>>, mcache)}
    IN  UNION {
          LET match == findProjectMilestoneMatch(MilestonesOf(ms.data), milestoneHintResolved)
              matched == search /\ match # NoMilestone
              projectMilestoneId ==
                  IF matched THEN match.id
                  ELSE IF "projectMilestoneId" \in given THEN input.projectMilestoneId
                  ELSE ""
              projectId ==
                  IF "projectId" \in given THEN input.projectId
                  ELSE IF matched /\ issue.projectId = "" THEN effectiveProjectId
                  ELSE ""
              description ==
                  IF ~wantsDescriptionUpdate THEN Undefined
                  ELSE IF projectMilestoneId # "" /\ extracted.description.defined
                  THEN extracted.description
                  ELSE titleStrippedDescription
              priority ==
                  IF normalizedPriority # issue.priority THEN normalizedPriority
                  ELSE NoPriority
              labelIds == IF wanted THEN enforcedLabelIds(input.labelIds, m)
                          ELSE IF "labelIds" \in given THEN input.labelIds
                          ELSE <<>>
              keys == (given \cap {"title", "labelIds"})
                      \cup definedKeys(description, priority, projectId, projectMilestoneId)
              updatePayload ==
                  IssueInput(keys, description, priority, projectId, projectMilestoneId)
          IN  IF keys = {}
              THEN {Caching(ms.mscache,
                            Returned(LiveData("issue"), calls \o ms.calls \o m.calls, m.mcache))}
              ELSE {Caching(ms.mscache,
                            Sending(updatePayload, WithCalls(calls \o ms.calls \o m.calls, o))) :
                      o \in entityRequest("updateIssue", labelIds,
                                          "Failed to update issue", m.mcache)}
          : ms \in found, m \in lookups}

updateIssue(input, apiKey, mcache) ==
    safeExecute(
        UNION {IF r.threw THEN {r}
               ELSE updateIssueWith(input, issueOf(input.id), apiKey, r.calls, r.mcache)
               : r \in request("issue", "read", <<>>, mcache)},
        MockData("updateIssue"), apiKey, mcache)

\* an input object that is only its keys
Keys(keys) == IssueInput(keys, Undefined, NoPriority, "", "")

deleteIssue(id, apiKey, mcache) ==
    safeExecute({Sending(Keys({"id"}), o) :
                   o \in request("deleteIssue", "mutation", <<>>, mcache)},
                MockData("deleteIssue"), apiKey, mcache)

PROJECT_FIELDS ==
    {"name", "teamIds", "description", "state", "leadId", "color", "icon", "priority"}

\* linearPayload of createProject and updateProject: the title is the name,
\* or else payload.title, and is stripped from the description
projectInput(payload) ==
    LET projectTitle == IF payload.name # "" THEN payload.name ELSE payload.title
        cleanedDescription ==
            IF projectTitle # "" /\ payload.description.defined
            THEN stripTitleFromDescription(projectTitle, payload.description)
            ELSE payload.description
    IN  IssueInput(pick(payload, PROJECT_FIELDS), cleanedDescription, NoPriority, "", "")

createProject(payload, apiKey, mcache) ==
    safeExecute({Sending(projectInput(payload), o) :
                   o \in request("createProject", "mutation", <<>>, mcache)},
                MockData("createProject"), apiKey, mcache)

updateProject(id, payload, apiKey, mcache) ==
    safeExecute({Sending(projectInput(payload), o) :
                   o \in request("updateProject", "mutation", <<>>, mcache)},
                MockData("updateProject"), apiKey, mcache)

createRoadmap(payload, apiKey, mcache) ==
    safeExecute({Sending(Keys({"name"}), o) :
                   o \in request("createRoadmap", "mutation", <<>>, mcache)},
                MockData("createRoadmap"), apiKey, mcache)

getProject(id, apiKey, mcache) ==
    safeExecute(request("project", "read", <<>>, mcache),
                MockData("project"), apiKey, mcache)

getRoadmap(id, apiKey, mcache) ==
    safeExecute(request("roadmap", "read", <<>>, mcache),
                MockData("roadmap"), apiKey, mcache)

getUsers(apiKey, mcache) ==
    safeExecute(request("users", "read", <<>>, mcache),
                MockData("users"), apiKey, mcache)

getTeams(apiKey, mcache) ==
    safeExecute(request("teams", "read", <<>>, mcache),
                MockData("teams"), apiKey, mcache)

getIssue(id, apiKey, mcache) ==
    safeExecute(request("issue", "read", <<>>, mcache),
                MockData("issue"), apiKey, mcache)

\* issue references and search terms a caller may send
BlankRefs == {"", " "}
Uuids == {"uuid-1"}
IssueRefs == BlankRefs \cup Uuids \cup {"ENG-42", "mock-1", "login bug"}

\* String(issueRef ?? '').trim()
trimmed(ref) == IF ref \in BlankRefs THEN "" ELSE ref

isUuid(raw) == raw \in Uuids

\* extractIssueIdentifierFromText: the identifier in upper case, "" when none
extractIssueIdentifierFromText(raw) ==
    CASE raw = "ENG-42" -> "ENG-42"
      [] raw = "mock-1" -> "MOCK-1"
      [] OTHER -> ""

\* the identifiers of the hits a live search may return
SearchHits == {<<>>, <<"ENG-42">>, <<"OPS-7">>}
MockSearchHits == <<"MOCK-1">>

SearchData(source, nodes) == [source |-> source, of |-> "searchIssues", nodes |-> nodes]

searchIssues(term, apiKey, mcache) ==
    IF trimmed(term) = ""
    THEN {Returned(SearchData("local", <<>>), <<>>, mcache)}
    ELSE safeExecute(
            {Returned(SearchData("tracker", nodes),
                      <<TrackerCall("searchIssues", "read", <<>>, TRUE)>>, mcache) :
                nodes \in SearchHits}
            \cup {Threw(e, <<TrackerCall("searchIssues", "read", <<>>, FALSE)>>, mcache) :
                    e \in UpstreamErrors},
            SearchData("mock", MockSearchHits), apiKey, mcache)

getIssueByIdOrIdentifier(issueRef, apiKey, mcache) ==
    LET raw == trimmed(issueRef)
        identifier == extractIssueIdentifierFromText(raw)
        term == IF identifier # "" THEN identifier ELSE raw
    IN  IF raw = "" THEN {Threw(Thrown("Issue id is required"), <<>>, mcache)}
        ELSE IF isUuid(raw) THEN getIssue(raw, apiKey, mcache)
        ELSE UNION {
               IF s.threw THEN {s}
               ELSE IF Len(s.data.nodes) = 0
               THEN {Threw(Thrown("No issues found"), s.calls, s.mcache)}
               ELSE IF identifier # "" /\ \A j \in 1..Len(s.data.nodes) :
                                             s.data.nodes[j] # identifier
               THEN {Threw(Thrown("No issues found"), s.calls, s.mcache)}
               ELSE {WithCalls(s.calls, g) : g \in getIssue(term, apiKey, s.mcache)}
               : s \in searchIssues(term, apiKey, mcache)}

-----------------------------------------------------------------------------
(* routes.ts: the actions and payloads a caller may send *)

\* A payload.  Beyond the fields named here, a payload may carry a
\* description, a priority, a project, a milestone, milestone hints, a
\* project name, and the helper fields of the preview in "helpers".
Payload(id, title, given, labelIds, term, error) ==
    [id |-> id, title |-> title, given |-> given, labelIds |-> labelIds,
     teamId |-> "t1", term |-> term, error |-> error,
     description |-> Undefined, priority |-> Absent,
     projectId |-> "", projectMilestoneId |-> "",
     projectMilestoneName |-> NoPhase, milestoneName |-> NoPhase, phase |-> NoPhase,
     name |-> "", helpers |-> {}, labelNames |-> <<>>, projectName |-> ""]

Item(action, payload) == [action |-> action, payload |-> payload]

IssueCreates ==
    {Item("createIssue", Payload("", "T1", FALSE, <<>>, "", "")),
     Item("createIssue", Payload("", "T1", TRUE, <<"l2", "l3">>, "", "")),
     Item("createIssue", Payload("", "T1", TRUE, <<"l1", "l2">>, "", ""))}

IssueUpdates ==
    {Item("updateIssue", Payload("uuid-1", "T1", FALSE, <<>>, "", "")),
     Item("updateIssue", Payload("uuid-1", "", TRUE, <<"l3", "l2">>, "", "")),
     Item("updateIssue", Payload("uuid-1", "T0", TRUE, <<"l1">>, "", ""))}

\* payloads as a preview leaves them: with helper fields, a description that
\* repeats the title and names a phase, a priority, a project, a milestone
ReviewHelpers == {"assigneeName", "labelNames", "projectName", "project", "leadName"}

Draft == Text(<<TextLine(0, "#", "FIX  login!"),
                PhaseLine(0, "**", PhaseValue(1, TRUE, "Beta")),
                TextLine(1, "", "Steps...")>>)

Detailed(payload, priority, projectId, projectMilestoneId, phase) ==
    [payload EXCEPT !.description = Draft, !.priority = priority,
                    !.projectId = projectId, !.projectMilestoneId = projectMilestoneId,
                    !.phase = phase, !.milestoneName = phase,
                    !.name = "Fix login", !.helpers = ReviewHelpers]

\* a milestone without a project; a milestone hint with and without a
\* project; a milestone of the given project
MilestoneCases ==
    {<<Number(0), "", "ms-2", NoPhase>>,
     <<String("none"), "p1", "", PhaseValue(NoCode, FALSE, "Beta")>>,
     <<Number(0), "", "", PhaseValue(NoCode, FALSE, "Beta")>>,
     <<Number(0), "p1", "ms-2", NoPhase>>}

DetailedPayloads(id) ==
    {Detailed(Payload(id, "Fix login", FALSE, <<>>, "", ""), c[1], c[2], c[3], c[4]) :
        c \in MilestoneCases}

DetailedMutations ==
    {Item("createIssue", p) : p \in DetailedPayloads("")}
    \cup {Item("updateIssue", p) :
            p \in {q \in DetailedPayloads("uuid-1") \cup DetailedPayloads("uuid-2") :
                     q.projectId = ""}}
    \cup {Item("updateIssue",
                [Payload("uuid-3", "T0", FALSE, <<>>, "", "") EXCEPT
                    !.phase = PhaseValue(NoCode, FALSE, "Beta")])}
    \cup {Item(a, Detailed(Payload("uuid-1", "Fix login", FALSE, <<>>, "", ""),
                           Number(0), "", "", NoPhase)) :
             a \in {"deleteIssue", "createProject", "updateProject", "createRoadmap"}}

OtherMutations ==
    {Item(a, Payload("uuid-1", "T1", FALSE, <<>>, "", "")) :
        a \in {"deleteIssue", "createProject", "updateProject", "createRoadmap"}}

Reads ==
    {Item("readIssue", Payload(ref, "", FALSE, <<>>, "", "")) : ref \in IssueRefs}
    \cup {Item("searchIssues", Payload("", "", FALSE, <<>>, term, "")) :
            term \in {"", "login bug"}}
    \cup {Item(a, Payload("uuid-1", "", FALSE, <<>>, "", "")) :
            a \in {"readProject", "readRoadmap"}}

Others ==
    {Item("error", Payload("", "", FALSE, <<>>, "", e)) : e \in {"", "no intent"}}
    \cup {Item("archiveIssue", Payload("uuid-1", "", FALSE, <<>>, "", ""))}

\* a request body without action or payload
NoAction == Item("", Payload("", "", FALSE, <<>>, "", ""))

ExecItems ==
    IssueCreates \cup IssueUpdates \cup OtherMutations \cup DetailedMutations
    \cup Reads \cup Others

\* the items a batch is drawn from
BatchItems ==
    {Item("createIssue", Payload("", "T1", TRUE, <<"l2", "l3">>, "", "")),
     Item("deleteIssue", Payload("uuid-1", "T1", FALSE, <<>>, "", "")),
     Item("error", Payload("", "", FALSE, <<>>, "", ""))}

MUTATION_ACTIONS ==
    {"createIssue", "updateIssue", "deleteIssue", "createProject", "updateProject",
     "createRoadmap"}
READ_ACTIONS == {"readIssue", "searchIssues", "readProject", "readRoadmap"}

executeLinearAction(item, apiKey, mcache) ==
    LET p == item.payload
    IN  CASE item.action = "createIssue" -> createIssue(p, apiKey, mcache)
          [] item.action = "updateIssue" -> updateIssue(p, apiKey, mcache)
          [] item.action = "deleteIssue" -> deleteIssue(p.id, apiKey, mcache)
          [] item.action = "readIssue" -> getIssueByIdOrIdentifier(p.id, apiKey, mcache)
          [] item.action = "searchIssues" -> searchIssues(p.term, apiKey, mcache)
          [] item.action = "createProject" -> createProject(p, apiKey, mcache)
          [] item.action = "updateProject" -> updateProject(p.id, p, apiKey, mcache)
          [] item.action = "createRoadmap" -> createRoadmap(p, apiKey, mcache)
          [] item.action = "readProject" -> getProject(p.id, apiKey, mcache)
          [] item.action = "readRoadmap" -> getRoadmap(p.id, apiKey, mcache)
          [] item.action = "error" ->
                {Threw(Thrown(IF p.error # "" THEN p.error
                              ELSE "Agent returned error action"), <<>>, mcache)}
          [] OTHER -> {Threw(Thrown("Unknown action"), <<>>, mcache)}

\* the tracker calls of an operation, as issued for item i by the handler h
Issued(calls, i, h) ==
    [j \in 1..Len(calls) |-> [calls[j] EXCEPT !.item = i, !.handler = h]]

\* live fetches of team metadata among the calls
Fetches(calls) ==
    Cardinality({j \in 1..Len(calls) : calls[j].op = "team" /\ calls[j].ok})

Outcome(o) == [threw |-> o.threw, err |-> o.err]

\* results.push({...item, status, data | error}); an absent error is ""
batchResult(item, o) ==
    IF o.threw
    THEN [action |-> item.action, payload |-> item.payload, status |-> "failed",
          error |-> getClientErrorMessage(o.err), data |-> NoData]
    ELSE [action |-> item.action, payload |-> item.payload, status |-> "success",
          error |-> "", data |-> o.data]

Response(code, status, error, result) ==
    [code |-> code, status |-> status, error |-> error, result |-> result]

\* the server takes the next request
Ready == req.pc = "idle"

\* the response has been sent: the handler's locals are gone
RequestEnds ==
    /\ req.pc = "done"
    /\ req' = IdleRequest
    /\ results' = <<>>
    /\ outcomes' = <<>>
    /\ sent' = <<>>
    /\ response' = NoResponse
    /\ UNCHANGED <<cacheVars, clientVars, helperVars>>

\* POST /execute with a batch: the loop is entered
ExecuteBatchStart(batch, apiKey) ==
    /\ Ready
    /\ req' = [handler |-> "executeBatch", pc |-> "loop", apiKey |-> apiKey,
               batch |-> batch, i |-> 1, teamId |-> ""]
    /\ results' = <<>>
    /\ outcomes' = <<>>
    /\ sent' = <<>>
    /\ response' = NoResponse
    /\ UNCHANGED <<cacheVars, clientVars, helperVars>>

\* a mutation of the loop: the first throwing item ends it
ExecuteBatchItemAborting ==
    /\ req.handler = "executeBatch" /\ req.pc = "loop" /\ req.i <= Len(req.batch)
    /\ \E o \in executeLinearAction(req.batch[req.i], req.apiKey, metadataCache) :
         /\ results' = IF o.threw THEN results
                       ELSE Append(results, batchResult(req.batch[req.i], o))
         /\ outcomes' = Append(outcomes, Outcome(o))
         /\ sent' = sent \o Issued(o.calls, req.i, "execute")
         /\ metadataCache' = o.mcache
         /\ milestoneCache' = o.mscache
         /\ nextFetch' = nextFetch + Fetches(o.calls)
         /\ req' = [req EXCEPT !.i = IF o.threw THEN Len(req.batch) + 1 ELSE @ + 1]
    /\ UNCHANGED <<clientVars, helperVars, now, ticks, envKey, call, fetchLog, invocations,
                   response>>

\* one turn of the loop: try { executeLinearAction } catch { failed }
ExecuteBatchItem ==
    /\ req.handler = "executeBatch" /\ req.pc = "loop" /\ req.i <= Len(req.batch)
    /\ \E o \in executeLinearAction(req.batch[req.i], req.apiKey, metadataCache) :
         /\ results' = Append(results, batchResult(req.batch[req.i], o))
         /\ outcomes' = Append(outcomes, Outcome(o))
         /\ sent' = sent \o Issued(o.calls, req.i, "execute")
         /\ metadataCache' = o.mcache
         /\ milestoneCache' = o.mscache
         /\ nextFetch' = nextFetch + Fetches(o.calls)
    /\ req' = [req EXCEPT !.i = @ + 1]
    /\ UNCHANGED <<clientVars, helperVars, now, ticks, envKey, call, fetchLog, invocations,
                   response>>

\* res.json({ results })
ExecuteBatchRespond ==
    /\ req.handler = "executeBatch" /\ req.pc = "loop" /\ req.i > Len(req.batch)
    /\ req' = [req EXCEPT !.pc = "done"]
    /\ response' = Response(200, "", "", NoData)
    /\ UNCHANGED <<results, outcomes, sent>>
    /\ UNCHANGED <<cacheVars, clientVars, helperVars>>

\* POST /execute with one action
ExecuteSingle(item, apiKey) ==
    /\ Ready
    /\ req' = [handler |-> "execute", pc |-> "done", apiKey |-> apiKey,
               batch |-> <<item>>, i |-> 1, teamId |-> ""]
    /\ results' = <<>>
    /\ IF item = NoAction
       THEN /\ response' = Response(400, "", "Action and payload required", NoData)
            /\ outcomes' = <<>>
            /\ sent' = <<>>
            /\ UNCHANGED <<metadataCache, milestoneCache, nextFetch>>
       ELSE \E o \in executeLinearAction(item, apiKey, metadataCache) :
              /\ response' = IF o.threw
                             THEN Response(getClientErrorStatus(o.err), "",
                                           getClientErrorMessage(o.err), NoData)
                             ELSE Response(200, "success", "", o.data)
              /\ outcomes' = <<Outcome(o)>>
              /\ sent' = Issued(o.calls, 1, "execute")
              /\ metadataCache' = o.mcache
              /\ milestoneCache' = o.mscache
              /\ nextFetch' = nextFetch + Fetches(o.calls)
    /\ UNCHANGED <<clientVars, helperVars, now, ticks, envKey, call, fetchLog, invocations>>

\* GET /team/:teamId/metadata
MetadataRequest(teamId, apiKey) ==
    /\ Ready
    /\ req' = [handler |-> "metadata", pc |-> "done", apiKey |-> apiKey,
               batch |-> <<>>, i |-> 0, teamId |-> teamId]
    /\ results' = <<>>
    /\ \E o \in getTeamMetadata(teamId, apiKey, metadataCache) :
         /\ response' = IF o.threw
                        THEN Response(500, "", "Failed to fetch team metadata", NoData)
                        ELSE Response(200, "", "", o.data)
         /\ outcomes' = <<Outcome(o)>>
         /\ sent' = Issued(o.calls, 1, "metadata")
         /\ metadataCache' = o.mcache
         /\ nextFetch' = nextFetch + Fetches(o.calls)
    /\ UNCHANGED <<clientVars, helperVars, now, ticks, envKey, milestoneCache, call, fetchLog, invocations>>

-----------------------------------------------------------------------------
(* routes.ts: the planning handlers /agent and /upload *)

\* getTeamMetadata inside try { } catch { }: metadata stays undefined on failure
contextLookups(teamId, apiKey, mcache) ==
    {Returned(IF m.threw THEN NoData ELSE m.data, m.calls, m.mcache) :
        m \in getTeamMetadata(teamId, apiKey, mcache)}

\* getFirstTeam: teams.nodes[0]
firstTeamId(teams) == IF teams.data.source = "mock" THEN MockTeamId ELSE "t1"

\* the team context of a planning request: throws only when getFirstTeam does
planningContext(teamId, apiKey, mcache) ==
    IF teamId # ""
    THEN contextLookups(teamId, apiKey, mcache)
    ELSE UNION {IF t.threw THEN {t}
                ELSE {WithCalls(t.calls, m) :
                        m \in contextLookups(firstTeamId(t), apiKey, t.mcache)}
                : t \in getTeams(apiKey, mcache)}

\* what the agent may answer to a chat message
AgentPlans ==
    ExecItems \cup {Item("message", Payload("", "", FALSE, <<>>, "", ""))}

\* updateIssue previews are prefilled from the current issue; failures are caught
prefill(plan, apiKey, mcache) ==
    IF plan.action = "updateIssue" /\ trimmed(plan.payload.id) # ""
    THEN {Returned(NoData, g.calls, g.mcache) :
            g \in getIssueByIdOrIdentifier(trimmed(plan.payload.id), apiKey, mcache)}
    ELSE {Returned(NoData, <<>>, mcache)}

\* a mutation of /agent: the plan is executed straight away
agentResultExecuting(plan, apiKey, mcache) ==
    IF plan.action \in READ_ACTIONS \cup MUTATION_ACTIONS
    THEN executeLinearAction(plan, apiKey, mcache)
    ELSE {Returned(NoData, <<>>, mcache)}

\* read actions are executed at once; anything else has result: null
agentResult(plan, apiKey, mcache) ==
    IF plan.action \in READ_ACTIONS
    THEN CASE plan.action = "readIssue" ->
                 getIssueByIdOrIdentifier(plan.payload.id, apiKey, mcache)
           [] plan.action = "searchIssues" ->
                 searchIssues(plan.payload.term, apiKey, mcache)
           [] plan.action = "readProject" -> getProject(plan.payload.id, apiKey, mcache)
           [] plan.action = "readRoadmap" -> getRoadmap(plan.payload.id, apiKey, mcache)
    ELSE {Returned(NoData, <<>>, mcache)}

agentStatus(plan) ==
    IF plan.action = "error" THEN "failed"
    ELSE IF plan.action \in MUTATION_ACTIONS THEN "pending"
    ELSE "success"

\* e?.message || 'Read failed.'
readFailedMessage(e) == IF e.message # "" THEN e.message ELSE "Read failed."

agentResponse(plan, r) ==
    IF plan.action \in READ_ACTIONS
    THEN IF r.threw
         THEN Response(200, "failed", readFailedMessage(r.err), NoData)
         ELSE Response(200, "success", "", r.data)
    ELSE Response(200, agentStatus(plan), "", NoData)

\* POST /agent
AgentRequest(teamId, message, openAIKey, plan, apiKey) ==
    /\ Ready
    /\ req' = [handler |-> "agent", pc |-> "done", apiKey |-> apiKey,
               batch |-> IF message /\ openAIKey THEN <<plan>> ELSE <<>>, i |-> 1,
               teamId |-> teamId]
    /\ results' = <<>>
    /\ outcomes' = <<>>
    /\ \E c \in planningContext(teamId, apiKey, metadataCache) :
         IF c.threw
         THEN \* the rejection of getFirstTeam is not handled: no response is sent
              /\ response' = NoResponse
              /\ sent' = Issued(c.calls, 0, "agent")
              /\ metadataCache' = c.mcache
              /\ nextFetch' = nextFetch + Fetches(c.calls)
         ELSE IF ~message
         THEN /\ response' = Response(400, "", "Message is required", NoData)
              /\ sent' = Issued(c.calls, 0, "agent")
              /\ metadataCache' = c.mcache
              /\ nextFetch' = nextFetch + Fetches(c.calls)
         ELSE IF ~openAIKey
         THEN /\ response' = Response(500, "", "OpenAI API Key not provided", NoData)
              /\ sent' = Issued(c.calls, 0, "agent")
              /\ metadataCache' = c.mcache
              /\ nextFetch' = nextFetch + Fetches(c.calls)
         ELSE \E f \in prefill(plan, apiKey, c.mcache) :
              \E r \in agentResult(plan, apiKey, f.mcache) :
                /\ response' = agentResponse(plan, r)
                /\ sent' = Issued(c.calls, 0, "agent") \o Issued(f.calls \o r.calls, 1, "agent")
                /\ metadataCache' = r.mcache
                /\ nextFetch' = nextFetch + Fetches(c.calls \o f.calls \o r.calls)
    /\ UNCHANGED <<clientVars, helperVars, now, ticks, envKey, milestoneCache, call, fetchLog, invocations>>

\* what handleFileUpload may answer for a file: null, a plan, or it fails
NoPlan == Item("null", Payload("", "", FALSE, <<>>, "", ""))
FailedUpload == Item("throw", Payload("", "", FALSE, <<>>, "", ""))
FilePlans ==
    {NoPlan, FailedUpload,
     Item("createIssue", Payload("", "T1", TRUE, <<"l2", "l3">>, "", "")),
     Item("updateIssue", Payload("uuid-1", "T1", FALSE, <<>>, "", "")),
     Item("createProject", Payload("", "T1", FALSE, <<>>, "", "")),
     Item("updateProject", Payload("uuid-1", "T1", FALSE, <<>>, "", ""))}

\* POST /upload up to the loop over the files: getUsers, default team
UploadStart(files, teamId, apiKey) ==
    /\ Ready
    /\ results' = <<>>
    /\ outcomes' = <<>>
    /\ IF Len(files) = 0
       THEN /\ req' = [handler |-> "upload", pc |-> "done", apiKey |-> apiKey,
                       batch |-> files, i |-> 1, teamId |-> teamId]
            /\ response' = Response(400, "", "No files uploaded", NoData)
            /\ sent' = <<>>
       ELSE \E u \in getUsers(apiKey, metadataCache) :
            \E t \in IF teamId # "" \/ u.threw
                     THEN {Returned(NoData, <<>>, metadataCache)}
                     ELSE getTeams(apiKey, metadataCache) :
              /\ sent' = Issued(u.calls \o t.calls, 0, "upload")
              /\ IF u.threw \/ t.threw
                 THEN /\ req' = [handler |-> "upload", pc |-> "done", apiKey |-> apiKey,
                                 batch |-> files, i |-> 1, teamId |-> teamId]
                      /\ response' = Response(500, "", "Batch processing failed", NoData)
                 ELSE /\ req' = [handler |-> "upload", pc |-> "loop", apiKey |-> apiKey,
                                 batch |-> files, i |-> 1,
                                 teamId |-> IF teamId # "" THEN teamId ELSE firstTeamId(t)]
                      /\ response' = NoResponse
    /\ UNCHANGED <<cacheVars, clientVars, helperVars>>

\* plannedActions.push(...): a plan, never a result
plannedAction(plan, metadata) ==
    IF plan = NoPlan
    THEN [action |-> "", payload |-> plan.payload, status |-> "skipped",
          error |-> "", data |-> NoData]
    ELSE [action |-> plan.action,
          payload |-> IF plan.action \in {"createIssue", "updateIssue"}
                         /\ plan.payload.given /\ metadata # NoData
                      THEN [plan.payload EXCEPT !.labelIds =
                              enforceExclusiveChildLabelIds(@, LabelsOf(metadata)).labelIds]
                      ELSE plan.payload,
          status |-> "pending", error |-> "", data |-> NoData]

\* one file of /upload
UploadFile ==
    /\ req.handler = "upload" /\ req.pc = "loop" /\ req.i <= Len(req.batch)
    /\ \E m \in contextLookups(req.teamId, req.apiKey, metadataCache) :
         /\ sent' = sent \o Issued(m.calls, req.i, "upload")
         /\ metadataCache' = m.mcache
         /\ nextFetch' = nextFetch + Fetches(m.calls)
         /\ IF req.batch[req.i] = FailedUpload
            THEN \* thrown outside the per-file try: the outer catch answers
                 /\ req' = [req EXCEPT !.pc = "done"]
                 /\ response' = Response(500, "", "Batch processing failed", NoData)
                 /\ UNCHANGED results
            ELSE /\ req' = [req EXCEPT !.i = @ + 1]
                 /\ results' = Append(results, plannedAction(req.batch[req.i], m.data))
                 /\ UNCHANGED response
    /\ UNCHANGED <<clientVars, helperVars, now, ticks, envKey, milestoneCache, call, fetchLog, invocations,
                   outcomes>>

\* res.json({ results: plannedActions })
UploadRespond ==
    /\ req.handler = "upload" /\ req.pc = "loop" /\ req.i > Len(req.batch)
    /\ req' = [req EXCEPT !.pc = "done"]
    /\ response' = Response(200, "", "", NoData)
    /\ UNCHANGED <<results, outcomes, sent>>
    /\ UNCHANGED <<cacheVars, clientVars, helperVars>>

RECURSIVE SeqsUpTo(_, _)
\* the sequences over S of length at most n
SeqsUpTo(S, n) ==
    IF n = 0 THEN {<<>>}
    ELSE LET shorter == SeqsUpTo(S, n - 1)
         IN  shorter \cup {Append(q, x) : q \in {r \in shorter : Len(r) = n - 1}, x \in S}

RequestTeams == {"", "t1"}

Next ==
    \/ \E batch \in SeqsUpTo(BatchItems, MaxBatch), k \in ApiKeys :
         ExecuteBatchStart(batch, k)
    \/ ExecuteBatchItem
    \/ ExecuteBatchRespond
    \/ \E item \in ExecItems \cup {NoAction}, k \in ApiKeys : ExecuteSingle(item, k)
    \/ \E k \in ApiKeys : MetadataRequest("t1", k)
    \/ \E t \in RequestTeams, message \in BOOLEAN, openAIKey \in BOOLEAN,
          plan \in AgentPlans, k \in ApiKeys :
         AgentRequest(t, message, openAIKey, plan, k)
    \/ \E files \in SeqsUpTo(FilePlans, MaxFiles), t \in RequestTeams, k \in ApiKeys :
         UploadStart(files, t, k)
    \/ UploadFile
    \/ UploadRespond
    \/ RequestEnds

Spec == Init /\ [][Next]_vars

-----------------------------------------------------------------------------
(* ActionInspector.tsx: the review of a plan in the browser.  A handler sees *)
(* the localData of the render it was created in; an awaiting handler keeps  *)
(* that snapshot until the server answers.                                    *)

NoFile == 0
Terminal == {"success", "failed", "skipped"}

\* an entry of the /upload response for the j-th file
PlannedItem(j, status) ==
    [file |-> j, action |-> IF status = "pending" THEN "createIssue" ELSE "",
     status |-> status]

InitialPlans ==
    UNION {[1..n -> {"pending", "skipped", "failed"}] : n \in 1..PlanSize}

\* a batch plan (from /upload) or a single plan (from /agent) has arrived
InitClient ==
    /\ executing = FALSE
    /\ flights = <<>>
    /\ submitted = [j \in 0..PlanSize |-> 0]
    /\ \/ /\ \E plan \in InitialPlans :
               items = [j \in DOMAIN plan |-> PlannedItem(j, plan[j])]
          /\ root = "none"
       \/ /\ items = <<>>
          /\ root \in {"pending", "success", "failed"}

pendingCount == Cardinality({j \in DOMAIN items : items[j].status = "pending"})

Without(seq, k) == [j \in 1..(Len(seq) - 1) |-> IF j < k THEN seq[j] ELSE seq[j + 1]]

Flight(kind, index, snapshot) == [kind |-> kind, index |-> index, snapshot |-> snapshot]

\* handleSingleAction(index, 'decline')
ClickDecline(index) ==
    /\ index \in DOMAIN items /\ items[index].status = "pending"
    /\ items' = [items EXCEPT ![index].status = "skipped"]
    /\ UNCHANGED <<root, executing, flights, submitted>>
    /\ UNCHANGED <<cacheVars, serverVars, helperVars>>

\* handleSingleAction(index, 'accept') up to await executeAction(...)
ClickAccept(index) ==
    /\ index \in DOMAIN items /\ items[index].status = "pending"
    /\ Len(flights) < MaxFlights
    /\ executing' = TRUE
    /\ flights' = Append(flights, Flight("single", index, items))
    /\ submitted[index] < MaxSubmissions
    /\ submitted' = [submitted EXCEPT ![index] = @ + 1]
    /\ UNCHANGED <<items, root>>
    /\ UNCHANGED <<cacheVars, serverVars, helperVars>>

\* handleSingleAction after the await: success, or the catch branch
SingleActionCompletes(k, ok) ==
    /\ k \in DOMAIN flights /\ flights[k].kind = "single"
    /\ items' = [flights[k].snapshot EXCEPT
                   ![flights[k].index].status = IF ok THEN "success" ELSE "failed"]
    /\ executing' = FALSE
    /\ flights' = Without(flights, k)
    /\ UNCHANGED <<root, submitted>>
    /\ UNCHANGED <<cacheVars, serverVars, helperVars>>

\* handleDeclineAll
ClickDeclineAll ==
    /\ pendingCount > 0 /\ ~executing
    /\ items' = [j \in DOMAIN items |->
                   IF items[j].status = "pending"
                   THEN [items[j] EXCEPT !.status = "skipped"] ELSE items[j]]
    /\ UNCHANGED <<root, executing, flights, submitted>>
    /\ UNCHANGED <<cacheVars, serverVars, helperVars>>

\* the body sent by handleAcceptAll: { action, payload } of the pending items
executablePendingItems(snapshot) ==
    {j \in DOMAIN snapshot : snapshot[j].status = "pending" /\ snapshot[j].action # ""}

\* handleAcceptAll up to await executeBatch(...)
ClickAcceptAll ==
    /\ pendingCount > 0 /\ ~executing
    /\ Len(flights) < MaxFlights
    /\ executing' = TRUE
    /\ flights' = Append(flights, Flight("all", 0, items))
    /\ \A j \in executablePendingItems(items) : submitted[j] < MaxSubmissions
    /\ submitted' = [j \in DOMAIN submitted |->
                       IF j \in executablePendingItems(items)
                       THEN submitted[j] + 1 ELSE submitted[j]]
    /\ UNCHANGED <<items, root>>
    /\ UNCHANGED <<cacheVars, serverVars, helperVars>>

\* the server's result for a sent item: {...item, status, data | error}
resultItem(sentItem, status) ==
    [file |-> NoFile, action |-> sentItem.action, status |-> status]

\* localData.results.map(item => res.results.find(r => r.file === item.file
\*   && r.action === item.action) ...): the first matching result is merged
updatedResults(snapshot, res) ==
    [j \in DOMAIN snapshot |->
       LET matching == {r \in DOMAIN res : /\ res[r].file = snapshot[j].file
                                            /\ res[r].action = snapshot[j].action}
       IN  IF matching = {} THEN snapshot[j]
           ELSE [snapshot[j] EXCEPT
                   !.status = res[CHOOSE r \in matching : \A q \in matching : r <= q].status]]

\* handleAcceptAll after the await; verdict gives each sent item's status
AcceptAllCompletes(k, verdict) ==
    /\ k \in DOMAIN flights /\ flights[k].kind = "all"
    /\ verdict \in [executablePendingItems(flights[k].snapshot) -> {"success", "failed"}]
    /\ LET snapshot == flights[k].snapshot
           res == [j \in DOMAIN snapshot |->
                     IF j \in DOMAIN verdict THEN resultItem(snapshot[j], verdict[j])
                     ELSE [file |-> NoFile, action |-> "", status |-> ""]]
       IN  items' = updatedResults(snapshot, res)
    /\ executing' = FALSE
    /\ flights' = Without(flights, k)
    /\ UNCHANGED <<root, submitted>>
    /\ UNCHANGED <<cacheVars, serverVars, helperVars>>

\* handleAcceptAll when executeBatch rejects: catch, finally
AcceptAllFails(k) ==
    /\ k \in DOMAIN flights /\ flights[k].kind = "all"
    /\ executing' = FALSE
    /\ flights' = Without(flights, k)
    /\ UNCHANGED <<items, root, submitted>>
    /\ UNCHANGED <<cacheVars, serverVars, helperVars>>

\* handleSingleDecline
ClickSingleDecline ==
    /\ items = <<>> /\ root = "pending"
    /\ root' = "failed"
    /\ UNCHANGED <<items, executing, flights, submitted>>
    /\ UNCHANGED <<cacheVars, serverVars, helperVars>>

\* handleSingleAccept up to await executeAction(...)
ClickSingleAccept ==
    /\ items = <<>> /\ root = "pending" /\ ~executing
    /\ Len(flights) < MaxFlights
    /\ executing' = TRUE
    /\ flights' = Append(flights, Flight("chat", 0, <<>>))
    /\ submitted[0] < MaxSubmissions
    /\ submitted' = [submitted EXCEPT ![0] = @ + 1]
    /\ UNCHANGED <<items, root>>
    /\ UNCHANGED <<cacheVars, serverVars, helperVars>>

\* handleSingleAccept after the await: setLocalData(prev => ...)
SingleAcceptCompletes(k, ok) ==
    /\ k \in DOMAIN flights /\ flights[k].kind = "chat"
    /\ root' = IF ok THEN "success" ELSE "failed"
    /\ executing' = FALSE
    /\ flights' = Without(flights, k)
    /\ UNCHANGED <<items, submitted>>
    /\ UNCHANGED <<cacheVars, serverVars, helperVars>>

Verdicts == UNION {[D -> {"success", "failed"}] : D \in SUBSET (1..(PlanSize + 1))}

NextClient ==
    \/ \E j \in 1..(PlanSize + 1) : ClickDecline(j)
    \/ \E j \in 1..(PlanSize + 1) : ClickAccept(j)
    \/ \E k \in 1..(MaxFlights + 1), ok \in BOOLEAN : SingleActionCompletes(k, ok)
    \/ ClickDeclineAll
    \/ ClickAcceptAll
    \/ \E k \in 1..(MaxFlights + 1), verdict \in Verdicts : AcceptAllCompletes(k, verdict)
    \/ \E k \in 1..(MaxFlights + 1) : AcceptAllFails(k)
    \/ ClickSingleDecline
    \/ ClickSingleAccept
    \/ \E k \in 1..(MaxFlights + 1), ok \in BOOLEAN : SingleAcceptCompletes(k, ok)

\* a plan has arrived in the browser
InitReview == InitCache /\ InitServer /\ InitClient /\ InitNoHelper

SpecClient == InitReview /\ [][NextClient]_vars

-----------------------------------------------------------------------------
(* A plan from draft to mutation: the planning handler normalises the      *)
(* drafted createIssue payload into the preview, the reviewer accepts it    *)
(* unedited, and /execute hands the preview's payload to createIssue.       *)

\* the priority a preview shows: the normalised one if there is one
shownPriority(priority, normalizedPriority) ==
    IF normalizedPriority # NoPriority THEN Number(10 * normalizedPriority) ELSE priority

\* a || b || c || extractedPhase
hintOrPhase(payload, extractedPhase) ==
    IF milestoneHintOf(payload) # NoPhase THEN milestoneHintOf(payload) ELSE extractedPhase

\* String.prototype.toLowerCase on the names of labels and projects
toLowerCase(name) ==
    CASE name = "Bug"        -> "bug"
      [] name = "Mobile"     -> "mobile"
      [] name = "Web"        -> "web"
      [] name = "App"        -> "app"
      [] name = "Mobile App" -> "mobile app"
      [] OTHER               -> name

\* metadata.labels[..].name
labelNameOf(id) ==
    CASE id = "g1" -> "Platform"
      [] id = "l1" -> "Bug"
      [] id = "l2" -> "Mobile"
      [] id = "l3" -> "Web"
      [] id = "mock-label-bug"  -> "Bug"
      [] id = "mock-label-feat" -> "Feature"
      [] OTHER -> ""

RECURSIVE resolveLabelNames(_, _, _)
\* for (const name of issue.labelNames): the first label of that name, unless
\* a label of the same parent has been taken already
resolveLabelNames(labelNames, labels, usedParentIds) ==
    IF labelNames = <<>> THEN <<>>
    ELSE LET named == {j \in DOMAIN labels :
                         toLowerCase(labelNameOf(labels[j].id)) = toLowerCase(Head(labelNames))}
             match == labels[CHOOSE j \in named : \A k \in named : j <= k]
         IN  IF named = {} THEN resolveLabelNames(Tail(labelNames), labels, usedParentIds)
             ELSE IF match.parentId # "" /\ match.parentId \in usedParentIds
             THEN resolveLabelNames(Tail(labelNames), labels, usedParentIds)
             ELSE <<match.id>> \o
                  resolveLabelNames(Tail(labelNames), labels,
                                    IF match.parentId # ""
                                    THEN usedParentIds \cup {match.parentId}
                                    ELSE usedParentIds)

Project(id, name) == [id |-> id, name |-> name]

\* metadata.projects of a descriptor
ProjectsOf(data) == IF data.fetch = 0 THEN <<Project("mock-proj-1", "Mock Project")>>
                    ELSE <<Project("p1", "Mobile App")>>

\* a.includes(b) on lower-cased names
nameIncludes(a, b) ==
    \/ a = b
    \/ b = ""
    \/ a = "mobile app" /\ b \in {"mobile", "app"}
    \/ a = "mock project" /\ b \in {"mock", "project"}

\* a variant that takes a project only when the name is its whole name
resolveProjectExact(projects, projName) ==
    LET found == {j \in DOMAIN projects : toLowerCase(projects[j].name) = toLowerCase(projName)}
    IN  IF found = {} THEN "" ELSE projects[CHOOSE j \in found : \A k \in found : j <= k].id

\* metadata.projects.find(p => p.name.toLowerCase().includes(projName.toLowerCase()))
resolveProject(projects, projName) ==
    LET found == {j \in DOMAIN projects :
                    nameIncludes(toLowerCase(projects[j].name), toLowerCase(projName))}
    IN  IF found = {} THEN "" ELSE projects[CHOOSE j \in found : \A k \in found : j <= k].id

Preview(payload, calls, mscache) == [payload |-> payload, calls |-> calls, mscache |-> mscache]

\* /upload, issue logic: cleanPayload of a drafted issue
previewIssueUpload(payload, metadata, apiKey, mscache) ==
    LET stripped == IF payload.title # "" /\ payload.description.defined
                    THEN stripTitleFromDescription(payload.title, payload.description)
                    ELSE payload.description
        extracted == IF stripped.defined THEN extractPhaseAndStripFromDescription(stripped)
                     ELSE [phase |-> NoPhase, description |-> Undefined]
        resolved == IF payload.labelNames # <<>> /\ metadata # NoData
                    THEN resolveLabelNames(payload.labelNames, LabelsOf(metadata), {})
                    ELSE <<>>
        givenLabelIds == IF resolved # <<>> THEN resolved ELSE payload.labelIds
        labelIds == IF (payload.given \/ resolved # <<>>) /\ metadata # NoData
                    THEN enforceExclusiveChildLabelIds(givenLabelIds,
                                                       LabelsOf(metadata)).labelIds
                    ELSE givenLabelIds
        namedProject == IF payload.projectName # "" /\ metadata # NoData
                        THEN resolveProject(ProjectsOf(metadata), payload.projectName)
                        ELSE ""
        projectId == IF namedProject # "" THEN namedProject ELSE payload.projectId
        milestoneHint == hintOrPhase(payload, extracted.phase)
        search == payload.projectMilestoneId = "" /\ projectId # ""
                    /\ nonBlankPhase(milestoneHint)
        found == IF search THEN getProjectMilestones(projectId, apiKey, mscache)
                 ELSE {[data |-> EmptyMilestones, calls |-> <<>>, mscache |-> mscache]}
    IN  { LET match == findProjectMilestoneMatch(MilestonesOf(ms.data), milestoneHint)
              matched == search /\ match # NoMilestone
              projectMilestoneId == IF matched THEN match.id ELSE payload.projectMilestoneId
              description == finalDescriptionOf(projectMilestoneId, extracted.description,
                                                stripped)
              \* issue.projectMilestoneName = match.name, read again for the priority
              issue == IF matched THEN [payload EXCEPT !.projectMilestoneName = match.name]
                       ELSE payload
              normalizedPriority ==
                  normalizeIssuePriority(payload.priority, description,
                                         hintOrPhase(issue, extracted.phase))
          IN  Preview([payload EXCEPT
                         !.description = description,
                         !.labelIds = labelIds,
                         !.given = payload.given \/ resolved # <<>>,
                         !.labelNames = <<>>,
                         !.projectId = projectId,
                         !.projectMilestoneId = projectMilestoneId,
                         !.priority = shownPriority(@, normalizedPriority),
                         !.projectMilestoneName = NoPhase,
                         !.milestoneName = NoPhase,
                         !.phase = NoPhase,
                         !.helpers = @ \ {"assigneeName", "teamName", "labelNames", "leadName"}],
                      ms.calls, ms.mscache)
          : ms \in found }

\* /agent: the normalised preview payload of a drafted issue
previewIssueAgent(payload, apiKey, mscache) ==
    LET stripped == IF payload.title # "" /\ payload.description.defined
                    THEN stripTitleFromDescription(payload.title, payload.description)
                    ELSE payload.description
        extracted == IF stripped.defined THEN extractPhaseAndStripFromDescription(stripped)
                     ELSE [phase |-> NoPhase, description |-> Undefined]
        milestoneHint == hintOrPhase(payload, extracted.phase)
        normalizedPriority == normalizeIssuePriority(payload.priority, stripped, milestoneHint)
        search == payload.projectMilestoneId = "" /\ payload.projectId # ""
                    /\ nonBlankPhase(milestoneHint)
        found == IF search THEN getProjectMilestones(payload.projectId, apiKey, mscache)
                 ELSE {[data |-> EmptyMilestones, calls |-> <<>>, mscache |-> mscache]}
    IN  { LET match == findProjectMilestoneMatch(MilestonesOf(ms.data), milestoneHint)
              matched == search /\ match # NoMilestone
              projectMilestoneId == IF matched THEN match.id ELSE payload.projectMilestoneId
          IN  Preview([payload EXCEPT
                         !.description = IF projectMilestoneId # ""
                                            /\ extracted.description.defined
                                         THEN extracted.description ELSE stripped,
                         !.projectMilestoneId = projectMilestoneId,
                         !.projectMilestoneName = IF matched THEN match.name ELSE @,
                         !.priority = shownPriority(@, normalizedPriority)],
                      ms.calls, ms.mscache)
          : ms \in found }

Descriptions ==
    {Undefined, Draft,
     Text(<<TextLine(0, "", "Fix login"), TextLine(0, "#", "FIX  login!"),
            TextLine(1, "", "Steps...")>>),
     Text(<<PhaseLine(0, "", PhaseValue(NoCode, FALSE, "Alpha")), TextLine(1, "", "Steps...")>>)}

\* createIssue {title 'Fix login', description '# Fix login / **Phase:** P1:
\* Beta / Steps...', labelNames [Bug, Mobile], projectName 'App'}
NamedDraft ==
    [Payload("", "Fix login", FALSE, <<>>, "", "") EXCEPT
        !.description = Text(<<TextLine(0, "#", "Fix login"),
                               PhaseLine(0, "**", PhaseValue(1, TRUE, "Beta")),
                               TextLine(0, "", "Steps...")>>),
        !.labelNames = <<"Bug", "Mobile">>,
        !.projectName = "App",
        !.helpers = {"labelNames", "projectName"}]

\* what the planner may draft for a createIssue
Drafts ==
    {NamedDraft} \cup
    {[Payload("", "Fix login", labelIds # <<>>, labelIds, "", "") EXCEPT
        !.description = description, !.priority = priority, !.projectId = projectId,
        !.projectMilestoneId = projectMilestoneId, !.phase = phase] :
      labelIds \in {<<>>, <<"l2", "l3">>},
      description \in Descriptions,
      priority \in {Absent, Number(0), Number(20), String("none")},
      projectId \in {"", "p1"},
      projectMilestoneId \in {"", "ms-2"},
      phase \in {NoPhase, PhaseValue(NoCode, FALSE, "Beta")}}

Planned(route, draft, apiKey) ==
    [kind |-> "plan", route |-> route, draft |-> draft, apiKey |-> apiKey]

\* the planning handler builds the preview: team metadata, then normalisation
BuildPreview ==
    /\ args.kind = "plan" /\ ret = NoReturn
    /\ \E m \in contextLookups("t1", args.apiKey, metadataCache) :
       \E p \in IF args.route = "upload"
                THEN previewIssueUpload(args.draft, m.data, args.apiKey, milestoneCache)
                ELSE previewIssueAgent(args.draft, args.apiKey, milestoneCache) :
         /\ ret' = Call("preview", 1, args.draft, p.payload)
         /\ sent' = Issued(m.calls \o p.calls, 1, args.route)
         /\ metadataCache' = m.mcache
         /\ milestoneCache' = p.mscache
         /\ nextFetch' = nextFetch + Fetches(m.calls)
    /\ UNCHANGED <<clientVars, args, now, ticks, envKey, call, fetchLog, invocations,
                   req, results, outcomes, response>>

\* the reviewer accepts: POST /execute with the preview's payload
ExecutePreview ==
    /\ ret.op = "preview"
    /\ \E o \in createIssue(ret.out, args.apiKey, metadataCache) :
         /\ ret' = Call("execute", 1, ret.out, Outcome(o))
         /\ sent' = Issued(o.calls, 1, "execute")
         /\ metadataCache' = o.mcache
         /\ milestoneCache' = o.mscache
         /\ nextFetch' = nextFetch + Fetches(o.calls)
    /\ UNCHANGED <<clientVars, args, now, ticks, envKey, call, fetchLog, invocations,
                   req, results, outcomes, response>>

NextPlan ==
    \/ BuildPreview
    \/ ExecutePreview

\* the planner has drafted a createIssue for one of the planning handlers
InitPlan ==
    /\ InitCache /\ InitServer /\ InitNoPlan
    /\ args \in {Planned(route, draft, apiKey) :
                   route \in {"upload", "agent"}, draft \in Drafts, apiKey \in ApiKeys}
    /\ ret = NoReturn

SpecPlan == InitPlan /\ [][NextPlan]_vars

-----------------------------------------------------------------------------
(* The helper functions of linear.ts on their own: the arguments are drawn  *)
(* from bounded sets, and a step calls the function, or calls it again on   *)
(* what it returned.                                                          *)

MaxLabelIds == 3

Hints ==
    {NoPhase, BlankPhase} \cup PhaseValues
    \cup {PhaseValue(2, TRUE, ""), PhaseValue(4, FALSE, "Sprint")}

LabelIdPool == {"l1", "l2", "l3", "zz"}

\* the team's labels as the caller has them; <<>> is an empty or missing table
LabelTables == {<<>>, TrackerLabels, <<Label("l2", "g1")>>}

StripArgs ==
    [kind : {"strip"}, title : Titles, description : TextsUpTo(MaxLines)]

PhaseArgs == [kind : {"phase"}, description : TextsUpTo(MaxLines)]

PriorityArgs ==
    [kind : {"priority"}, value : PriorityValues,
     description : TextsUpTo(MaxPriorityLines), phase : Hints]

LabelArgs ==
    [kind : {"labels"}, labelIds : SeqsUpTo(LabelIdPool, MaxLabelIds), labels : LabelTables]

\* milestone lists of a project as the tracker may return them
MilestoneLists ==
    {<<>>,
     TrackerMilestones,
     <<Milestone("m1", PhaseValue(0, TRUE, "Alpha")),             \* "P0: Alpha"
       Milestone("m2", PhaseValue(1, TRUE, "Beta"))>>,            \* "P1: Beta"
     <<Milestone("m1", PhaseValue(NoCode, FALSE, "Beta Release")),
       Milestone("m2", PhaseValue(NoCode, FALSE, "Beta"))>>,
     <<Milestone("m1", PhaseValue(1, TRUE, "Beta")),
       Milestone("m2", PhaseValue(1, TRUE, "Alpha"))>>}

MilestoneArgs ==
    [kind : {"milestone"}, milestones : MilestoneLists,
     hint : Hints \cup {PhaseValue(NoCode, FALSE, "Beta")}]

HelperArgs == StripArgs \cup PhaseArgs \cup PriorityArgs \cup LabelArgs \cup MilestoneArgs

CallStripTitle ==
    /\ args.kind = "strip" /\ ret = NoReturn
    /\ ret' = Call("stripTitleFromDescription", 1, args.description,
                   stripTitleFromDescription(args.title, args.description))
    /\ UNCHANGED <<cacheVars, serverVars, clientVars, args>>

CallStripTitleAgain ==
    /\ ret.op = "stripTitleFromDescription" /\ ret.times = 1
    /\ ret' = Call("stripTitleFromDescription", 2, ret.out,
                   stripTitleFromDescription(args.title, ret.out))
    /\ UNCHANGED <<cacheVars, serverVars, clientVars, args>>

CallExtractPhase ==
    /\ args.kind = "phase" /\ ret = NoReturn
    /\ ret' = Call("extractPhaseAndStripFromDescription", 1, args.description,
                   extractPhaseAndStripFromDescription(args.description))
    /\ UNCHANGED <<cacheVars, serverVars, clientVars, args>>

CallExtractPhaseAgain ==
    /\ ret.op = "extractPhaseAndStripFromDescription" /\ ret.times = 1
    /\ ret' = Call("extractPhaseAndStripFromDescription", 2, ret.out.description,
                   extractPhaseAndStripFromDescription(ret.out.description))
    /\ UNCHANGED <<cacheVars, serverVars, clientVars, args>>

CallNormalizeIssuePriority ==
    /\ args.kind = "priority" /\ ret = NoReturn
    /\ ret' = Call("normalizeIssuePriority", 1, args.value,
                   normalizeIssuePriority(args.value, args.description, args.phase))
    /\ UNCHANGED <<cacheVars, serverVars, clientVars, args>>

CallInferPriorityFromText ==
    /\ args.kind = "priority" /\ ret = NoReturn
    /\ ret' = Call("inferPriorityFromText", 1, args.phase,
                   inferPriorityFromText(args.description, args.phase))
    /\ UNCHANGED <<cacheVars, serverVars, clientVars, args>>

CallEnforceExclusive ==
    /\ args.kind = "labels" /\ ret = NoReturn
    /\ ret' = Call("enforceExclusiveChildLabelIds", 1, args.labelIds,
                   enforceExclusiveChildLabelIds(args.labelIds, args.labels))
    /\ UNCHANGED <<cacheVars, serverVars, clientVars, args>>

CallFindProjectMilestoneMatch ==
    /\ args.kind = "milestone" /\ ret = NoReturn
    /\ ret' = Call("findProjectMilestoneMatch", 1, args.hint,
                   findProjectMilestoneMatch(args.milestones, args.hint))
    /\ UNCHANGED <<cacheVars, serverVars, clientVars, args>>

NextHelpers ==
    \/ CallStripTitle
    \/ CallStripTitleAgain
    \/ CallExtractPhase
    \/ CallExtractPhaseAgain
    \/ CallNormalizeIssuePriority
    \/ CallInferPriorityFromText
    \/ CallFindProjectMilestoneMatch
    \/ CallEnforceExclusive

\* a caller holds arguments for one of the helper functions
InitHelpers ==
    /\ InitCache /\ InitServer /\ InitNoPlan
    /\ args \in HelperArgs
    /\ ret = NoReturn

SpecHelpers == InitHelpers /\ [][NextHelpers]_vars

-----------------------------------------------------------------------------
(* Claims about the caches, checked under SpecCache *)

\* caller c makes a call in this step
Invoked(c) == call[c].pc = "idle" /\ call'[c].pc # "idle"

\* the cache the call of caller c (as primed) reads
CacheRead(c) == IF call'[c].op = "team" THEN metadataCache ELSE milestoneCache

\* the stored entry is present and the call is made strictly before its expiry
StoredAndFresh(c) ==
    /\ CacheRead(c)[call'[c].key] # NoEntry
    /\ now < CacheRead(c)[call'[c].key].expires

ReturnsStoredWithoutFetch(c) ==
    /\ call'[c].pc = "returned"
    /\ call'[c].result = CacheRead(c)[call'[c].key].data
    /\ nextFetch' = nextFetch

StartsFreshFetch(c) ==
    /\ call'[c].pc \in {"awaitTeam", "awaitProject"}
    /\ call'[c].fid = nextFetch + 1
    /\ nextFetch' = nextFetch + 1

\* caller c's live fetch completes successfully in this step
FetchSucceeds(c) ==
    /\ call[c].pc \in {"awaitFacets", "awaitMilestones"}
    /\ call'[c].pc = "returned"
    /\ call'[c].upstream = "none"

CacheWritten(c) == IF call[c].op = "team" THEN metadataCache' ELSE milestoneCache'

EntryReplacedWholesale(c) ==
    /\ call'[c].result.fetch = call[c].fid
    /\ CacheWritten(c)[call[c].key] =
          [kind |-> "entry", data |-> call'[c].result, expires |-> now + CACHE_TTL]

\* C4 (as stated): a non-forced call strictly before the stored expiry returns
\* the stored object without contacting the tracker; every call at or after
\* expiry, and every forced call, starts a fresh fetch, which on success
\* replaces the entry wholesale with expiry = completion time + 5 minutes.
C4_TtlContractAnyCredential ==
    [][\A c \in Callers :
          /\ Invoked(c) =>
                IF ~call'[c].force /\ StoredAndFresh(c)
                THEN ReturnsStoredWithoutFetch(c)
                ELSE StartsFreshFetch(c)
          /\ FetchSucceeds(c) => EntryReplacedWholesale(c)]_vars

\* C4 (amended): the same, except that a call that misses (or forces) with an
\* absent or placeholder credential returns the mock value without fetching;
\* only a call with a live credential starts the fresh fetch.
C4_TtlContract ==
    [][\A c \in Callers :
          /\ Invoked(c) =>
                IF ~call'[c].force /\ StoredAndFresh(c)
                THEN ReturnsStoredWithoutFetch(c)
                ELSE IF shouldMock(call'[c].apiKey)
                THEN /\ call'[c].pc = "returned"
                     /\ call'[c].result.fetch = 0
                     /\ nextFetch' = nextFetch
                ELSE StartsFreshFetch(c)
          /\ FetchSucceeds(c) => EntryReplacedWholesale(c)]_vars

\* C4 witness: a team entry fetched live is served from the cache, without a
\* fetch, to a call made in the last millisecond before its expiry.
C4_Witness ==
    \E c \in Callers, r \in fetchLog :
        /\ r.op = "team"
        /\ call[c].pc = "returned" /\ call[c].op = "team" /\ call[c].key = r.key
        /\ call[c].fid = 0 /\ call[c].result = r.data
        /\ metadataCache[r.key].data = r.data
        /\ now = r.doneAt + CACHE_TTL - 1

\* C5 (as stated): a team-metadata fetch refused upstream with an
\* authentication failure does not fail: the call returns the mock descriptor.
C5_AuthFailureReturnsMock ==
    \A c \in Callers :
        (call[c].op = "team" /\ call[c].upstream = "auth") =>
            (call[c].pc = "returned" /\ call[c].result = MockMetadata(call[c].key))

\* C6 (as stated): an upstream failure other than an authentication failure
\* during a getTeamMetadata or getProjectMilestones fetch is propagated to the
\* caller as an error, never converted into a returned value.
C6_OtherFailuresPropagate ==
    \A c \in Callers :
        (call[c].op \in {"team", "milestones"} /\ call[c].upstream = "other") =>
            call[c].pc = "threw"

\* C7: at all times every team's cache entry is absent or is exactly the
\* complete descriptor of one single successful fetch (all four facets from
\* that fetch) with expires = that fetch's completion time + CACHE_TTL.
C7_EntryFromOneFetch ==
    \A t \in Teams :
        \/ metadataCache[t] = NoEntry
        \/ \E r \in fetchLog :
              /\ r.op = "team" /\ r.key = t
              /\ metadataCache[t].kind = "entry"
              /\ metadataCache[t].data = r.data
              /\ \A f \in Facets : metadataCache[t].data.facetOf[f] = r.fetch
              /\ metadataCache[t].data.fetch = r.fetch
              /\ metadataCache[t].expires = r.doneAt + CACHE_TTL

\* C7 witness: two callers both missed the same team (neither forced, both
\* fetched although the first stored entry has not yet expired), both fetches
\* completed and the entry is the later writer's descriptor.
C7_Witness ==
    \E c1, c2 \in Callers, r1, r2 \in fetchLog :
        /\ c1 # c2
        /\ call[c1].pc = "returned" /\ call[c2].pc = "returned"
        /\ call[c1].op = "team" /\ call[c2].op = "team"
        /\ call[c1].key = call[c2].key
        /\ ~call[c1].force /\ ~call[c2].force
        /\ r1.fetch = call[c1].fid /\ r2.fetch = call[c2].fid
        /\ r1.fetch # 0 /\ r2.fetch # 0
        /\ r1.doneAt <= r2.doneAt
        /\ now < r1.doneAt + CACHE_TTL
        /\ metadataCache[call[c1].key].data = r2.data

-----------------------------------------------------------------------------
(* Claims about the server's handlers, checked under Spec *)

AllSent == {sent[j] : j \in 1..Len(sent)}
Mutations == {c \in AllSent : c.kind = "mutation"}
Answered == req.pc = "done"

\* C1: plan-first safety.  No tracker mutation is issued by the planning
\* handlers /agent and /upload: every mutation call comes from /execute.  A
\* mutation action proposed by /agent is answered with status 'pending' and no
\* result, and every plan /upload returns for a file is 'pending' without data.
C1_PlanFirstSafety ==
    /\ \A c \in Mutations : c.handler = "execute" /\ req.handler \in {"execute", "executeBatch"}
    /\ (req.handler = "agent" /\ Answered /\ response.code = 200
          /\ req.batch[1].action \in MUTATION_ACTIONS)
       => (response.status = "pending" /\ response.result = NoData)
    /\ req.handler = "upload"
       => \A j \in 1..Len(results) :
             results[j].action \in MUTATION_ACTIONS
             => (results[j].status = "pending" /\ results[j].data = NoData)

\* /agent answered a createIssue plan as pending after reading from the tracker
C1_Witness ==
    /\ req.handler = "agent" /\ Answered
    /\ ~shouldMock(req.apiKey)
    /\ response.code = 200 /\ response.status = "pending"
    /\ req.batch[1].action = "createIssue"
    /\ \E c \in AllSent : c.kind = "read" /\ c.ok

\* C2: batch execution isolates failures per item.  The answer to a batch
\* holds one result per submitted item, in submission order; an item is
\* 'failed' with a non-blank error text exactly when its own action threw, and
\* 'success' otherwise; every item of the batch was executed, in order.
C2_BatchIsolation ==
    (req.handler = "executeBatch" /\ Answered)
    => /\ Len(results) = Len(req.batch)
       /\ Len(outcomes) = Len(req.batch)
       /\ \A j \in 1..Len(req.batch) :
            /\ results[j].action = req.batch[j].action
            /\ results[j].payload = req.batch[j].payload
            /\ results[j].status = "failed" <=> outcomes[j].threw
            /\ results[j].status = "failed" => nonBlank(results[j].error)
            /\ ~outcomes[j].threw => results[j].status = "success" /\ results[j].error = ""
       /\ \A a, b \in 1..Len(sent) : a < b => sent[a].item <= sent[b].item

\* a batch whose first item threw and whose second item was sent and succeeded
C2_Witness ==
    /\ req.handler = "executeBatch" /\ Answered
    /\ Len(req.batch) >= 2
    /\ outcomes[1].threw /\ results[1].status = "failed"
    /\ results[2].status = "success"
    /\ \E c \in AllSent : c.item = 2 /\ c.kind = "mutation" /\ c.ok

TrackerOperations == MUTATION_ACTIONS \cup READ_ACTIONS

IsTrackerData(data) ==
    IF "source" \in DOMAIN data THEN data.source = "tracker" ELSE data.fetch # 0

\* C8: offline mode never fails.  With an absent or placeholder credential
\* every tracker service operation returns a value that is not the tracker's,
\* raises no error and makes no call to the tracker.
C8_OfflineNeverFails ==
    (/\ Answered
     /\ shouldMock(req.apiKey)
     /\ \/ req.handler = "metadata"
        \/ req.handler = "execute" /\ req.batch[1].action \in TrackerOperations)
    => /\ ~outcomes[1].threw
       /\ sent = <<>>
       /\ ~IsTrackerData(response.result)

\* the report /execute gives for item j
Reported(j) ==
    IF req.handler = "executeBatch"
    THEN [failed |-> results[j].status = "failed", error |-> results[j].error]
    ELSE [failed |-> response.code # 200 /\ response.status # "success",
          error |-> response.error]

\* C9: every failure of a tracker mutation call during execution is reported
\* for its item as failed, never as success, with the upstream error's first
\* message when there is one, else the error's own message, else
\* 'Execution failed'.
C9_MutationFailureReported ==
    (req.handler \in {"execute", "executeBatch"} /\ Answered)
    => \A c \in Mutations :
          ~c.ok => /\ Reported(c.item).failed
                   /\ Reported(c.item).error = getClientErrorMessage(outcomes[c.item].err)

\* no two of the ids belong to labels sharing a parent in the team's metadata
Exclusive(labelIds) ==
    \A a, b \in 1..Len(labelIds) :
       a # b => ~(/\ parentIdOf(TrackerLabels, labelIds[a]) # ""
                  /\ parentIdOf(TrackerLabels, labelIds[a]) = parentIdOf(TrackerLabels, labelIds[b]))

IssueWrites == {c \in Mutations : c.op \in {"createIssue", "updateIssue"}}

\* the metadata lookup that precedes the mutation of the same item failed
LookupFailed(c) ==
    \E m \in AllSent : m.item = c.item /\ m.handler = c.handler /\ m.op = "team" /\ ~m.ok

-----------------------------------------------------------------------------
(* Claims about the review of a plan, checked under SpecClient *)

\* C3: the terminal plan states are terminal.  Once a batch item or a single
\* chat plan is success, failed or skipped, no accept, decline, accept-all or
\* decline-all, and no completion of an earlier in-flight execution, changes
\* its status again.
C3_TerminalStaysTerminal ==
    [][/\ \A j \in DOMAIN items :
            items[j].status \in Terminal => items'[j].status = items[j].status
       /\ root \in Terminal => root' = root]_vars

-----------------------------------------------------------------------------
(* Claims about the helper functions, checked under SpecHelpers *)

StrippedTwice == ret.op = "stripTitleFromDescription" /\ ret.times = 2

\* C14: stripTitleFromDescription is idempotent: for every title and
\* description, applying it to its own result with the same title returns
\* that result unchanged.
C14_StripTitleIdempotent == StrippedTwice => ret.out = ret.given

PhaseExtractedTwice == ret.op = "extractPhaseAndStripFromDescription" /\ ret.times = 2

\* C15: extractPhaseAndStripFromDescription is idempotent on the description:
\* applied to the description it returned, it returns that description
\* unchanged and finds no further phase line to remove.
C15_ExtractPhaseIdempotent ==
    PhaseExtractedTwice => ret.out.description = ret.given /\ ret.out.phase = NoPhase

PriorityNormalized == ret.op = "normalizeIssuePriority"

inferred == inferPriorityFromText(args.description, args.phase)

\* the integer a numeric value or a string of digits stands for; NaN otherwise
numericValue ==
    IF args.value.type = "number" THEN Parsed(trunc(args.value.tenths))
    ELSE IF args.value.type = "string" /\ priorityMap(rawPriority(args.value.text)) = NoPriority
    THEN parseInt(rawPriority(args.value.text))
    ELSE NaN

\* C16: for a numeric or numeric-string value, zero defers and nonzero wins:
\* a value truncating to 0 returns the inferred priority when one exists and
\* 0 otherwise; a value truncating to 1..4 is returned whatever is inferred.
C16_ZeroDefersNonzeroWins ==
    (PriorityNormalized /\ ~numericValue.nan) =>
        /\ (numericValue.n = 0 /\ inferred # NoPriority) => ret.out = inferred
        /\ (numericValue.n = 0 /\ inferred = NoPriority) => ret.out = 0
        /\ numericValue.n \in 1..4 => ret.out = numericValue.n

\* the value 0 with a P1 phase line gives 2, and the string "2" with a P1
\* hint stays 2, and a fraction below 1 with nothing inferred gives 0
C16_Witness ==
    /\ PriorityNormalized
    /\ \/ args.value = Number(0) /\ inferred = 2 /\ ret.out = 2
       \/ args.value = String("4") /\ inferred = 1 /\ ret.out = 4
       \/ args.value = Number(4) /\ inferred = NoPriority /\ ret.out = 0

NoneStrings == {"none", "nopriority", "no-priority"}

\* C17: the strings 'none', 'nopriority' and 'no-priority', in any case,
\* given together with a detected P-code, return the inferred priority, as
\* the number 0 does.
C17_NoneStringDefers ==
    ( /\ PriorityNormalized
      /\ args.value.type = "string"
      /\ rawPriority(args.value.text) \in NoneStrings
      /\ inferred # NoPriority ) => ret.out = inferred

\* the value is absent, unrecognised, or a number outside 0..4
noUsableValue ==
    \/ args.value.type \in {"absent", "nan"}
    \/ args.value.type = "number" /\ trunc(args.value.tenths) \notin 0..4
    \/ /\ args.value.type = "string"
       /\ priorityMap(rawPriority(args.value.text)) = NoPriority
       /\ (numericValue.nan \/ numericValue.n \notin 0..4)

\* a P0-P4 code stands in the phase hint or in a phase marker of the description
codeInHintOrDescription ==
    \/ args.phase.code # NoCode
    \/ /\ args.description.defined
       /\ \E j \in DOMAIN args.description.lines :
              boldPhaseCode(args.description.lines[j]) \/ plainPhaseCode(args.description.lines[j])

\* C18: normalizeIssuePriority returns undefined or an integer in 0..4, and
\* undefined exactly when the value is absent, unrecognised or out of range
\* and no P0-P4 code can be inferred from the phase hint or the description.
C18_NoGuessedDefault ==
    PriorityNormalized =>
        /\ ret.out \in {NoPriority} \cup (0..4)
        /\ ret.out = NoPriority <=> (noUsableValue /\ ~codeInHintOrDescription)

Enforced == ret.op = "enforceExclusiveChildLabelIds"

kept == ret.out.labelIds

dropped == ret.out.droppedLabelIds

parentOf(id) == parentIdOf(args.labels, id)

Range(seq) == {seq[j] : j \in DOMAIN seq}

\* the first id of the input whose label has this parent
firstChild(parentId) ==
    args.labelIds[CHOOSE j \in DOMAIN args.labelIds :
        /\ parentOf(args.labelIds[j]) = parentId
        /\ \A k \in 1..(j - 1) : parentOf(args.labelIds[k]) # parentId]

RECURSIVE isSubsequence(_, _)
isSubsequence(a, b) ==
    IF a = <<>> THEN TRUE
    ELSE IF b = <<>> THEN FALSE
    ELSE IF Head(a) = Head(b) THEN isSubsequence(Tail(a), Tail(b))
    ELSE isSubsequence(a, Tail(b))

\* C19: for every labelIds list and labels table, no two kept ids have labels
\* with the same non-empty parentId; for each parent the kept child is the
\* first one of the input and the later ones are reported as dropped; every
\* id whose label has no parent or is unknown is kept; and the kept list is a
\* subsequence of the input.
C19_ExclusivePostcondition ==
    Enforced =>
        /\ \A i, j \in DOMAIN kept :
               (i # j /\ parentOf(kept[i]) # "") => parentOf(kept[i]) # parentOf(kept[j])
        /\ \A id \in Range(args.labelIds) :
               IF parentOf(id) = "" THEN id \in Range(kept)
               ELSE IF id = firstChild(parentOf(id))
                    THEN id \in Range(kept) /\ id \notin Range(dropped)
                    ELSE id \in Range(dropped) /\ id \notin Range(kept)
        /\ isSubsequence(kept, args.labelIds)

\* two children of g1 around a free label: the second child is dropped
C19_Witness ==
    /\ Enforced
    /\ args.labels = TrackerLabels
    /\ args.labelIds = <<"l3", "l1", "l2">>
    /\ kept = <<"l3", "l1">>
    /\ dropped = <<"l2">>

\* C20: for every labelIds list and every labels table, an empty or missing
\* table included, the kept list contains each id at most once, and the kept
\* ids stand in the order of their first occurrences in the input.
C20_DedupePreservingOrder ==
    Enforced =>
        /\ \A i, j \in DOMAIN kept : i # j => kept[i] # kept[j]
        /\ \A i, j \in DOMAIN kept :
               i < j => \E a, b \in DOMAIN args.labelIds :
                            /\ a < b
                            /\ args.labelIds[a] = kept[i] /\ args.labelIds[b] = kept[j]
                            /\ \A c \in 1..(a - 1) : args.labelIds[c] # kept[i]
                            /\ \A c \in 1..(b - 1) : args.labelIds[c] # kept[j]

-----------------------------------------------------------------------------
(* Claims about the input objects of the mutations, checked under Spec *)

IssueHelperFields ==
    {"assigneeName", "labelNames", "projectName", "project", "projectMilestoneName",
     "milestoneName", "phase", "leadName"}

\* for the project mutations the title is a helper field too
HelperFieldsOf(op) ==
    IF op \in {"createProject", "updateProject"} THEN IssueHelperFields \cup {"title"}
    ELSE IssueHelperFields

\* the payload submitted for the action a call was issued for
Submitted(c) == req.batch[c.item].payload

\* C11: for every action executed through /execute, the input object of the
\* tracker's mutation call contains none of the helper fields assigneeName,
\* labelNames, projectName, project, projectMilestoneName, milestoneName,
\* phase, leadName, nor, for a project mutation, title.
C11_HelperFieldsNeverSent ==
    \A c \in Mutations :
        c.handler = "execute" => c.input.keys \cap HelperFieldsOf(c.op) = {}

\* a project was created from a payload that carried the helper fields and a
\* title, and an issue from one that carried a phase and a milestone name
C11_Witness ==
    /\ \E c \in Mutations :
          /\ c.op \in {"createProject", "createIssue"} /\ c.ok
          /\ c.handler = "execute"
          /\ ReviewHelpers \cup {"title", "phase", "milestoneName"} \subseteq presentKeys(Submitted(c))
          /\ c.input.keys # {}

CreateCalls == {c \in Mutations : c.op = "createIssue"}

UpdateCalls == {c \in Mutations : c.op = "updateIssue" /\ c.handler = "execute"}

\* the payload names a milestone and no project
OrphanMilestone(payload) == payload.projectMilestoneId # "" /\ payload.projectId = ""

-----------------------------------------------------------------------------
(* Claims about a plan from preview to execution, checked under SpecPlan.  *)

\* the priority sent is the one the preview shows
samePriority(shown, sentPriority) ==
    IF sentPriority = NoPriority THEN shown = Absent ELSE shown = Number(10 * sentPriority)

\* the createIssue mutation carries what the reviewed preview shows
SentAsPreviewed(preview, c) ==
    /\ c.input.description = preview.description
    /\ samePriority(preview.priority, c.input.priority)
    /\ c.labelIds = preview.labelIds
    /\ c.input.projectId = preview.projectId
    /\ c.input.projectMilestoneId = preview.projectMilestoneId

\* C13: executing the unedited preview payload of a createIssue with the
\* caches left as the preview left them sends a mutation whose description,
\* priority, labelIds, projectId and projectMilestoneId are those of the
\* reviewed preview.
C13_RenormalizationIdempotent ==
    [][(ExecutePreview /\ metadataCache' = metadataCache /\ milestoneCache' = milestoneCache)
         => \A j \in DOMAIN sent' :
              sent'[j].kind = "mutation" => SentAsPreviewed(ret.out, sent'[j])]_vars

-----------------------------------------------------------------------------
(* Claims about priority inference, checked under SpecHelpers *)

PriorityInferred == ret.op = "inferPriorityFromText"

\* the priority of the first Phase marker of the description that is followed
\* by a P-code, the bold marker first
descriptionPriority(description) ==
    IF falsyText(description) THEN NoPriority
    ELSE LET bold == {i \in DOMAIN description.lines : boldPhaseCode(description.lines[i])}
             plain == {i \in DOMAIN description.lines : plainPhaseCode(description.lines[i])}
             first(S) == CHOOSE i \in S : \A j \in S : i <= j
         IN  IF bold # {} THEN levelPriority(description.lines[first(bold)].value.code)
             ELSE IF plain # {} THEN levelPriority(description.lines[first(plain)].value.code)
             ELSE NoPriority

\* C24: the inferred priority comes from the P-code of the phase hint when
\* the hint contains one and otherwise from the P-code of the description's
\* Phase marker (P0 -> 1, P1 -> 2, P2 -> 3, P3 and P4 -> 4); a non-blank hint
\* without a P-code does not prevent inference from the description.
C24_InferenceSource ==
    PriorityInferred =>
        ret.out = IF args.phase.code # NoCode THEN levelPriority(args.phase.code)
                  ELSE descriptionPriority(args.description)

-----------------------------------------------------------------------------
(* Claims about milestone matching, checked under SpecHelpers *)

MilestoneMatched == ret.op = "findProjectMilestoneMatch"

\* the (milestone, candidate) pairs of the call that score
scoringPairs ==
    {p \in (DOMAIN args.milestones) \X buildMilestoneMatchCandidates(args.hint) :
        matchScore(hintWords(args.milestones[p[1]].name), p[2]) > 0}

pairScore(p) == matchScore(hintWords(args.milestones[p[1]].name), p[2])

\* p ranks at least as high as q: score, then candidate length, then the
\* earlier milestone
ranksFirst(p, q) ==
    \/ pairScore(p) > pairScore(q)
    \/ pairScore(p) = pairScore(q) /\ textLength(p[2]) > textLength(q[2])
    \/ pairScore(p) = pairScore(q) /\ textLength(p[2]) = textLength(q[2]) /\ p[1] <= q[1]

\* C25: findProjectMilestoneMatch returns the milestone of the pair with the
\* highest score (3 exact, 2 prefix, 1 containment), then the longest
\* candidate, then the earliest pair; it returns undefined when no pair
\* scores, when the hint is empty or when the list is empty; milestones
\* [m1 'P0: Alpha', m2 'P1: Beta'] and hint 'P0' give m1.
C25_MilestoneSelection ==
    MilestoneMatched =>
        /\ (ret.out = NoMilestone) <=>
              (args.hint = NoPhase \/ args.milestones = <<>> \/ scoringPairs = {})
        /\ ret.out # NoMilestone =>
              \E p \in scoringPairs :
                 /\ ret.out = args.milestones[p[1]]
                 /\ \A q \in scoringPairs : ranksFirst(p, q)
        /\ (/\ args.milestones = <<Milestone("m1", PhaseValue(0, TRUE, "Alpha")),
                                   Milestone("m2", PhaseValue(1, TRUE, "Beta"))>>
            /\ args.hint = PhaseValue(0, TRUE, ""))
              => ret.out.id = "m1"

\* the exact match of the second milestone beats the prefix match of the first
C25_Witness ==
    /\ MilestoneMatched
    /\ args.hint = PhaseValue(NoCode, FALSE, "Beta")
    /\ pairScore(<<1, <<"beta">>>>) = 2
    /\ ret.out.id = "m2"

-----------------------------------------------------------------------------
(* Claims about the Phase line of a description, checked under SpecPlan *)

\* the description of a payload with its title line removed
titleStripped(payload) == stripTitleFromDescription(payload.title, payload.description)

\* and with its Phase line removed as well
phaseStripped(payload) ==
    extractPhaseAndStripFromDescription(titleStripped(payload)).description

\* the description that goes out with this milestone id
expectedDescription(payload, projectMilestoneId) ==
    IF projectMilestoneId # "" THEN phaseStripped(payload) ELSE titleStripped(payload)

\* C23: in upload planning and in createIssue the outgoing description is the
\* phase-stripped text exactly when the outgoing payload carries a non-empty
\* projectMilestoneId, supplied or resolved from the hint; with no milestone
\* id the description is title-stripped only and keeps its Phase line.
C23_PhaseLineRemovedWithMilestone ==
    /\ (ret.op = "preview" /\ args.route = "upload")
          => ret.out.description = expectedDescription(args.draft, ret.out.projectMilestoneId)
    /\ ret.op = "execute"
          => \A j \in DOMAIN sent :
                sent[j].kind = "mutation"
                   => sent[j].input.description =
                         expectedDescription(ret.given, sent[j].input.projectMilestoneId)

hasPhaseLine(description) ==
    description.defined /\ \E i \in DOMAIN description.lines : phasePattern(description.lines[i])

\* createIssue resolved the milestone from the Phase line and removed the
\* line, after a preview that resolved none and kept it
C23_Witness ==
    /\ ret.op = "execute"
    /\ hasPhaseLine(ret.given.description)
    /\ ret.given.projectMilestoneId = ""
    /\ \E j \in DOMAIN sent :
          /\ sent[j].kind = "mutation"
          /\ sent[j].input.projectMilestoneId # ""
          /\ ~hasPhaseLine(sent[j].input.description)

-----------------------------------------------------------------------------
(* Claims about what the caches hold and give out, checked under SpecCache *)

\* the call of caller c returned data of a live fetch
ReturnedLiveData(c) ==
    /\ call[c].pc = "returned"
    /\ call[c].result.kind \in {"team", "milestones"}
    /\ call[c].result.fetch # 0

\* C29: a team descriptor or milestone list fetched with one credential is
\* never returned to a call that supplies a different, absent or placeholder
\* credential; such a call gets data fetched with its own credential or the
\* mock value.
C29_CredentialIsolation ==
    \A c \in Callers :
       ReturnedLiveData(c) =>
          /\ ~shouldMock(call[c].apiKey)
          /\ call[c].result.cred = effectiveKey(call[c].apiKey)

\* some cache differs after the step
CachesWritten == metadataCache' # metadataCache \/ milestoneCache' # milestoneCache

\* the step changes at most the entry of the key caller c asked for, in the
\* cache of its operation
WritesOnlyRequestedKey(c) ==
    IF call[c].op = "team"
    THEN /\ milestoneCache' = milestoneCache
         /\ \A t \in TeamIds \ {call[c].key} : metadataCache'[t] = metadataCache[t]
    ELSE /\ metadataCache' = metadataCache
         /\ \A p \in Projects \ {call[c].key} : milestoneCache'[p] = milestoneCache[p]

\* C30: only a successful live fetch writes a cache: a call that fails or
\* that runs in mock mode, forced or not, leaves both caches as they were,
\* and a successful fetch writes only the entry of the requested team or
\* project.
C30_OnlySuccessfulFetchWrites ==
    [][CachesWritten =>
          \E c \in Callers :
             /\ FetchSucceeds(c)
             /\ ~shouldMock(call[c].apiKey)
             /\ WritesOnlyRequestedKey(c)]_vars

\* one team's entry was written by a successful fetch while a forced call in
\* mock mode and a failed call for the other team wrote nothing
C30_Witness ==
    /\ metadataCache["t1"] # NoEntry
    /\ metadataCache["t2"] = NoEntry
    /\ milestoneCache["p1"] = NoEntry
    /\ \E c \in Callers :
          /\ call[c].key \in {"t2", "p1"}
          /\ \/ call[c].pc = "threw"
             \/ call[c].upstream # "none"
             \/ call[c].pc = "returned" /\ call[c].force /\ shouldMock(call[c].apiKey)

-----------------------------------------------------------------------------
(* Claims about Accept and Accept All, checked under SpecClient *)

\* C22: when handleAcceptAll completes without a transport error, every item
\* that was pending with an action and a payload carries the status the
\* server returned for it, so that no executed item is still shown as
\* pending, and the items that were not pending are unchanged.
C22_AcceptAllMarksEveryItem ==
    [][\A k \in 1..MaxFlights, verdict \in Verdicts :
          AcceptAllCompletes(k, verdict) =>
             \A j \in DOMAIN flights[k].snapshot :
                IF j \in executablePendingItems(flights[k].snapshot)
                THEN items'[j].status = verdict[j]
                ELSE items'[j] = flights[k].snapshot[j]]_vars

\* C27: over any sequence and interleaving of Accept, Accept from the modal
\* and Accept All, the mutation of a given plan item is submitted to /execute
\* at most once.
C27_AtMostOneExecutionPerItem ==
    \A j \in DOMAIN items : submitted[j] <= 1

\* C28: when handleSingleAction for index i finishes, every other item is
\* what it was immediately before that completion, even when the executions
\* of several items overlap in time.
C28_SingleActionLeavesOthers ==
    [][\A k \in 1..MaxFlights, ok \in BOOLEAN :
          SingleActionCompletes(k, ok) =>
             \A j \in DOMAIN items : j # flights[k].index => items'[j] = items[j]]_vars

-----------------------------------------------------------------------------
(* Claims about the update payload of updateIssue, checked under Spec *)

\* the issue the update call c is about, as the tracker holds it
Existing(c) == issueOf(Submitted(c).id)

\* every field of the update payload of c differs from the issue's value
OnlyChangedFields(c) ==
    /\ "title" \in c.input.keys => Submitted(c).title # Existing(c).title
    /\ "labelIds" \in c.input.keys
          => ~sameStringArray(Submitted(c).labelIds, Existing(c).labelIds)
    /\ "description" \in c.input.keys
          => Submitted(c).description # Existing(c).description
    /\ "priority" \in c.input.keys => c.input.priority # Existing(c).priority
    /\ "projectId" \in c.input.keys => c.input.projectId # Existing(c).projectId
    /\ "projectMilestoneId" \in c.input.keys
          => c.input.projectMilestoneId # Existing(c).projectMilestoneId

\* C26: the update payload handed to the tracker contains a field only if its
\* value differs from the existing issue's current value (labelIds compared
\* as an unordered collection); when no field differs no update mutation is
\* issued and the existing issue is returned as success.
C26_UpdateSendsOnlyChanges ==
    \A c \in UpdateCalls : c.input.keys # {} /\ OnlyChangedFields(c)

-----------------------------------------------------------------------------
(* Claims about the planning pipeline of /upload, checked under SpecPlan *)

\* the team's metadata came from the tracker and no lookup failed
TrackerAnswered ==
    /\ \A j \in DOMAIN sent : sent[j].ok
    /\ \E j \in DOMAIN sent : sent[j].op = "team"

\* C21: for the proposal createIssue {title 'Fix login', description
\* '# Fix login / **Phase:** P1: Beta / Steps...', labelNames [Bug, Mobile],
\* projectName 'App'} with project 'Mobile App' (p1), its milestone 'P1: Beta'
\* and the labels Bug (l1, no parent) and Mobile (l2, child of Platform), the
\* upload pipeline yields description 'Steps...', labelIds [l1, l2],
\* projectId p1, the milestone's id and priority 2.
C21_EndToEndNormalization ==
    (/\ ret.op = "preview" /\ args.route = "upload"
     /\ args.draft = NamedDraft
     /\ TrackerAnswered)
    => /\ ret.out.description = Text(<<TextLine(0, "", "Steps...")>>)
       /\ ret.out.labelIds = <<"l1", "l2">>
       /\ ret.out.projectId = "p1"
       /\ ret.out.projectMilestoneId = "ms-2"
       /\ ret.out.priority = Number(20)

C21_Witness ==
    /\ ret.op = "preview" /\ args.route = "upload"
    /\ args.draft = NamedDraft
    /\ TrackerAnswered
    /\ ret.out.projectMilestoneId = "ms-2"
    /\ ret.out.priority = Number(20)

====
